---- MODULE Spec2Model ----
(***************************************************************************)
(* A model of cedar::da (src/src/cedar.h), the efficiently-updatable       *)
(* double-array trie, in its standard configuration: no USE_REDUCED_TRIE,  *)
(* no USE_FAST_LOAD, no USE_EXACT_FIT, no ALLOCATE_MEMORY_AT_ONCE,         *)
(* ORDERED = true, MAX_TRIAL = 1, NUM_TRACKING_NODES = 0, and a value_type *)
(* as wide as baseindex (da <long>), so that the base_/value union is one  *)
(* integer word.                                                           *)
(*                                                                         *)
(* The three arrays _array, _ninfo and _block are sequences: slot i of the  *)
(* code (0 .. _size-1, blocks 0 .. (_size >> 8) - 1) is element i + 1, and *)
(* only RdA .. WrB below index them.  An access outside the arrays is      *)
(* undefined behaviour in the C++ code: the model records it in the flag   *)
(* `fault' and whatever the faulting operation returns is not a result the *)
(* program guarantees.  A loop of the code that would not end is recorded  *)
(* in the same flag.                                                       *)
(***************************************************************************)
EXTENDS Integers, Sequences, FiniteSets, TLC

\* ------------------------------------------------------------ bounds
\* key bytes are drawn from 1 .. MaxLabel
MaxLabel == 2
\* keys have 1 .. MaxLen bytes
MaxLen == 2
\* values passed to update are 0 .. MaxVal
MaxVal == 1
\* the values passed to update for one key add up to at most MaxSum
MaxSum == 2
\* at most MaxCalls calls are made on the trie
MaxCalls == 4
\* at most MaxInserts calls in the runs that only insert
MaxInserts == 5
\* at most MaxLifeCalls calls in the runs that clear the trie or end the program
MaxLifeCalls == 3
\* the calls of one run in which the trie is saved and opened again
MaxOpenCalls == 3
\* the calls of one run on an instance that is handed arrays of the caller
MaxOwnCalls == 3
\* the keys of the trie whose array the caller hands over
MaxImageKeys == 1
\* the calls of one run under a memory limit
MaxCapCalls == 3
\* the insertions of one run on a reduced trie
MaxReducedInserts == 3
\* the calls of one run that fills a block
MaxRingCalls == 7
\* the calls of one run on the keys of two and three bytes
MaxDeepCalls == 3
\* the arrays grow to at most MaxBlocks blocks of 256 slots
MaxBlocks == 3
\* the loop of 256-slot steps of _add_block is followed up to MaxCapacity slots
MaxCapacity == 2048

\* ------------------------------------------------------------ program constants
BLOCK == 256
NO_VALUE == -1
NO_PATH == -2
MAX_TRIAL == 1
ORDERED == TRUE
\* sizeof (node), two long words, and sizeof (ninfo), two bytes
SizeofNode == 16
SizeofNinfo == 2

\* ------------------------------------------------------------ words
\* bit i of a
Bit(a, i) == (a \div (2 ^ i)) % 2

\* the exclusive or of the bits i of a and b, at its place
XorBit(a, b, i) == ((Bit(a, i) + Bit(b, i)) % 2) * (2 ^ i)

\* the exclusive or of two naturals, four bits at a time
RECURSIVE XorNat(_, _)
XorNat(a, b) ==
  IF a = 0 THEN b
  ELSE IF b = 0 THEN a
  ELSE (XorBit(a, b, 0) + XorBit(a, b, 1)) + (XorBit(a, b, 2) + XorBit(a, b, 3))
       + 16 * XorNat(a \div 16, b \div 16)

\* the C++ operator ^ on two's complement words
XOR(a, b) ==
  IF a >= 0 /\ b >= 0 THEN XorNat(a, b)
  ELSE IF a < 0 /\ b >= 0 THEN -XorNat(-a - 1, b) - 1
  ELSE IF a >= 0 /\ b < 0 THEN -XorNat(a, -b - 1) - 1
  ELSE XorNat(-a - 1, -b - 1)

\* e >> 8
Shr8(e) == e \div BLOCK

\* ------------------------------------------------------------ the three element types
node(base__, check_) == [base_ |-> base__, check |-> check_]

\* standard trie: base () is base_
base(n) == n.base_

\* node::base () as compiled: with USE_REDUCED_TRIE it is - (base_ + 1)
base_of(d, n) == IF d.reduced THEN -n.base_ - 1 ELSE base(n)

\* CEDAR_VALUE_LIMIT, the word of a reduced trie's node that holds no value yet
VALUE_LIMIT == 2147483647

ninfo0 == [sibling |-> 0, child |-> 0]

block0 == [prev |-> 0, next |-> 0, num |-> 256, reject |-> 257, trial |-> 0, ehead |-> 0]

\* ------------------------------------------------------------ array accesses
InA(d, i) == i \in 0 .. (d.size - 1)
InB(d, bi) == bi \in 0 .. (Shr8(d.size) - 1)

Fault(d) == [d EXCEPT !.fault = TRUE]

\* TRUE; as the guard of a CASE it has the model checker compute d before the
\* statements that follow, in the order of the code
Done(d) == d.size >= 0

\* an access of _array[i] / _ninfo[i]: out of the array is undefined behaviour
ChkA(d, i) == IF InA(d, i) THEN d ELSE Fault(d)
ChkB(d, bi) == IF InB(d, bi) THEN d ELSE Fault(d)

\* reads: what an out-of-bounds read yields is not defined
RdA(d, i) == IF InA(d, i) THEN d.array[i + 1] ELSE node(0, 0)
RdI(d, i) == IF InA(d, i) THEN d.ninfo[i + 1] ELSE ninfo0
RdB(d, bi) == IF InB(d, bi) THEN d.block[bi + 1] ELSE block0

WrA(d, i, n) == IF InA(d, i) THEN [d EXCEPT !.array[i + 1] = n] ELSE Fault(d)
WrBase(d, i, v) == IF InA(d, i) THEN [d EXCEPT !.array[i + 1].base_ = v] ELSE Fault(d)
WrCheck(d, i, v) == IF InA(d, i) THEN [d EXCEPT !.array[i + 1].check = v] ELSE Fault(d)
WrI(d, i, n) == IF InA(d, i) THEN [d EXCEPT !.ninfo[i + 1] = n] ELSE Fault(d)
WrSibling(d, i, v) == IF InA(d, i) THEN [d EXCEPT !.ninfo[i + 1].sibling = v] ELSE Fault(d)
WrChild(d, i, v) == IF InA(d, i) THEN [d EXCEPT !.ninfo[i + 1].child = v] ELSE Fault(d)
WrB(d, bi, f, v) == IF InB(d, bi) THEN [d EXCEPT !.block[bi + 1][f] = v] ELSE Fault(d)

\* the block ring heads _bheadF, _bheadC, _bheadO, named "F", "C", "O"
BHead(d, h) == IF h = "F" THEN d.bheadF ELSE IF h = "C" THEN d.bheadC ELSE d.bheadO

SetBHead(d, h, v) ==
  IF h = "F" THEN [d EXCEPT !.bheadF = v]
  ELSE IF h = "C" THEN [d EXCEPT !.bheadC = v]
  ELSE [d EXCEPT !.bheadO = v]

\* ------------------------------------------------------------ construction
\* _err: the message goes to standard error and std::exit (1) ends the program; the
\* statements of the caller that follow are not executed
_err(d, msg) == [d EXCEPT !.err = msg]

\* the program has not been ended by _err
Running(d) == d.err = ""

\* da::_initialize: the first, special block; _array, _ninfo and _block are null when
\* it is called
_initialize(d) ==
  [d EXCEPT !.array = <<node(IF d.reduced THEN -1 ELSE 0, -1)>> \o
                      [i \in 1 .. 255 |-> node(IF i = 1 THEN -255 ELSE -(i - 1),
                                               IF i = 255 THEN -1 ELSE -(i + 1))],
            !.ninfo = <<>> \o [i \in 1 .. 256 |-> ninfo0],
            !.block = <<[block0 EXCEPT !.ehead = 1]>>,
            !.capacity = 256, !.size = 256,
            !.tracking_node = <<0>>,
            !.reject = <<>> \o [i \in 1 .. 257 |-> i]]

\* da::da (): the members as the initializer list leaves them, then _initialize.  A
\* null _array, _ninfo or _block is the empty sequence.  The last six fields are not
\* members: lent is the caller's array as set_array received it, borrowed says that
\* _array points to it, lent_freed that it was passed to free or realloc; fault, over
\* and err record undefined behaviour, a growth beyond MaxBlocks and the end by exit.
\* With tracing set, log records the steps a call takes inside _pop_enode and _resolve
construct_as(reduced) ==
  _initialize([reduced |-> reduced,
               array |-> <<>>, ninfo |-> <<>>, block |-> <<>>,
               bheadF |-> 0, bheadC |-> 0, bheadO |-> 0,
               capacity |-> 0, size |-> 0,
               no_delete |-> FALSE,
               reject |-> <<>> \o [i \in 1 .. 257 |-> 0],
               tracking_node |-> <<0>>,
               max_alloc |-> 0,
               lent |-> <<>>, borrowed |-> FALSE, lent_freed |-> FALSE,
               fault |-> FALSE, over |-> FALSE, err |-> "",
               tracing |-> FALSE, log |-> <<>>])

\* da::da () of the standard trie
construct == construct_as(FALSE)

\* ------------------------------------------------------------ locals and loops
\* a local variable of the code: Body with its parameter standing for the value v,
\* which is computed first
Bind(v, Body(_)) == CASE Len(<<v>>) = 1 -> Body(v)

\* a loop of the code over a sibling list, an empty ring or a group of children:
\* Step is one turn on the loop's state s, taken until s.stop and at most k times.
\* The turns are taken in order: one, then sixteen, then 256, ... and each run of
\* turns by halves, which keeps the evaluation of a short loop shallow and that of a
\* long one log (k) deep.
RECURSIVE Turns(_, _, _)
Turns(Step(_), s, k) ==
  IF s.stop THEN s
  ELSE IF k <= 1 THEN Step(s)
  ELSE Turns(Step, Turns(Step, s, k \div 2), k - (k \div 2))

RECURSIVE IterateFrom(_, _, _, _)
IterateFrom(Step(_), s, n, k) ==
  IF s.stop \/ k <= 0 THEN s
  ELSE IF n >= k THEN Turns(Step, s, k)
  ELSE IterateFrom(Step, Turns(Step, s, n), 16 * n, k - n)

Iterate(Step(_), s, k) == IterateFrom(Step, s, 1, k)

\* ------------------------------------------------------------ the steps of a call
\* one step of the walk of an empty ring along -check; s is [e, seen, n]
RingWalkStep(d, s) ==
  IF ~InA(d, s.e) \/ s.e \in s.seen THEN [s EXCEPT !.stop = TRUE]
  ELSE [s EXCEPT !.e = -RdA(d, s.e).check, !.seen = s.seen \cup {s.e}, !.n = s.n + 1]

\* the walk of at most n steps from the slot e: [e, seen, n], with e the slot the
\* walk ended at, seen the slots visited and n their number
RingWalk(d, e, n) ==
  Iterate(LAMBDA s : RingWalkStep(d, s), [e |-> e, seen |-> {}, n |-> 0, stop |-> FALSE], n)

\* one step of the search of the slot e along -check; s is [at, n]
RingSeekStep(d, e, ehead, s) ==
  IF ~InA(d, s.at) \/ s.at = e \/ (s.n > 0 /\ s.at = ehead) THEN [s EXCEPT !.stop = TRUE]
  ELSE [s EXCEPT !.at = -RdA(d, s.at).check, !.n = s.n + 1]

\* the slot e is met on the walk of the empty ring of its block from ehead
OnEmptyRing(d, e) ==
  /\ InB(d, Shr8(e)) /\ RdB(d, Shr8(e)).num > 0
  /\ Bind(RdB(d, Shr8(e)).ehead, LAMBDA ehead :
          Iterate(LAMBDA s : RingSeekStep(d, e, ehead, s),
                  [at |-> ehead, n |-> 0, stop |-> FALSE], BLOCK + 1).at = e)

\* the call that follows is traced
Traced(d) == [d EXCEPT !.tracing = TRUE, !.log = <<>>]

\* _pop_enode takes the slot e for a child of from: whether e is empty and on the empty
\* ring of its block at this moment
Taken(d, e, from) ==
  IF ~d.tracing THEN d
  ELSE [d EXCEPT !.log = Append(@, [ev |-> "take", e |-> e, from |-> from,
                                    free |-> RdA(d, e).check < 0,
                                    ring |-> OnEmptyRing(d, e)])]

\* _find_place returns the slot r.e
Placed(r) ==
  IF ~r.d.tracing THEN r
  ELSE [d |-> [r.d EXCEPT !.log = Append(@, [ev |-> "place", e |-> r.e])], e |-> r.e]

\* the slots whose check names from: its children
Children(d, from) == {s \in 1 .. (d.size - 1) : RdA(d, s).check = from}

\* _resolve is entered for the newcomer label_n of from_n, whose slot to_pn belongs to
\* a child of from_p
Conflict(d, from_n, from_p, label_n, to_pn) ==
  IF ~d.tracing THEN d
  ELSE [d EXCEPT !.log = Append(@, [ev |-> "resolve", from_n |-> from_n, from_p |-> from_p,
                                    label_n |-> label_n, to_pn |-> to_pn,
                                    kids_n |-> Children(d, from_n),
                                    kids_p |-> Children(d, from_p)])]

\* _resolve has written the new base of from, the parent whose children move
Rebased(d, from, base_, base1, flag, child) ==
  IF ~d.tracing THEN d
  ELSE [d EXCEPT !.log = Append(@, [ev |-> "base", from |-> from, old |-> base_,
                                    new |-> base1, flag |-> flag, child |-> child])]

\* _resolve returns the slot to of the newcomer, with from_n the slot of its parent
Resolved(d, to, from_n) ==
  IF ~d.tracing THEN d
  ELSE [d EXCEPT !.log = Append(@, [ev |-> "done", to |-> to, from_n |-> from_n])]

\* _resolve calls cf (to_, to)
Called(d, to_, to) ==
  IF ~d.tracing THEN d
  ELSE [d EXCEPT !.log = Append(@, [ev |-> "cf", to_ |-> to_, to |-> to])]

\* ------------------------------------------------------------ block rings
_pop_block(d, bi, head_in, last) ==
  IF last THEN SetBHead(d, head_in, 0)
  ELSE Bind(RdB(d, bi), LAMBDA b :
       Bind(WrB(WrB(ChkB(d, bi), b.prev, "next", b.next), b.next, "prev", b.prev), LAMBDA d2 :
            IF bi = BHead(d2, head_in) THEN SetBHead(d2, head_in, b.next) ELSE d2))

\* a _push_block that links the block in front of the head and leaves the head as it is
_push_blockKeepHead(d, bi, head_out, empty) ==
  IF empty
  THEN SetBHead(WrB(WrB(d, bi, "next", bi), bi, "prev", bi), head_out, bi)
  ELSE Bind(BHead(d, head_out), LAMBDA ho :
       Bind(RdB(d, ho).prev, LAMBDA tail_out :
            WrB(WrB(WrB(WrB(ChkB(d, ho), bi, "prev", tail_out), bi, "next", ho),
                    tail_out, "next", bi), ho, "prev", bi)))

_push_block(d, bi, head_out, empty) ==
  IF empty
  THEN SetBHead(WrB(WrB(d, bi, "next", bi), bi, "prev", bi), head_out, bi)
  ELSE Bind(BHead(d, head_out), LAMBDA ho :
       Bind(RdB(d, ho).prev, LAMBDA tail_out :
            LET d1 == WrB(ChkB(d, ho), bi, "prev", tail_out)
                d2 == WrB(d1, bi, "next", ho)
                \* head_out = tail_out = _block[tail_out].next = bi
                d3 == WrB(d2, tail_out, "next", bi)
                d4 == WrB(d3, ho, "prev", bi)
            IN  SetBHead(d4, head_out, bi)))

_transfer_block(d, bi, head_in, head_out) ==
  Bind(_pop_block(ChkB(d, bi), bi, head_in, bi = RdB(d, bi).next), LAMBDA d1 :
       _push_block(d1, bi, head_out, BHead(d1, head_out) = 0 /\ RdB(d1, bi).num # 0))

\* the bytes _add_block counts for a capacity of cap slots: sizeof (node), sizeof
\* (ninfo) and again sizeof (ninfo) for each block
DesiredAlloc(cap) == SizeofNode * cap + SizeofNinfo * cap + SizeofNinfo * Shr8(cap)

\* while (desired_alloc < _max_alloc) { _capacity += 256; desired_alloc = ...; }
\* the result is the capacity the loop ends with
RECURSIVE GrowBySteps(_, _, _)
GrowBySteps(cap, desired_alloc, max_alloc) ==
  IF desired_alloc < max_alloc /\ cap < MaxCapacity
  THEN GrowBySteps(cap + 256, DesiredAlloc(cap + 256), max_alloc)
  ELSE cap

\* the capacity _add_block allocates when _size = _capacity: twice the capacity or,
\* when a memory limit is set and twice the capacity exceeds it, what the loop of
\* 256-slot steps gives, less 256
NewCapacity(d) ==
  IF d.max_alloc > 0 /\ DesiredAlloc(d.capacity + d.capacity) > d.max_alloc
  THEN GrowBySteps(d.size, DesiredAlloc(d.capacity + d.capacity), d.max_alloc) - 256
  ELSE d.capacity + d.capacity

\* the first statement of _add_block: allocate memory if needed.  The program ends
\* with exit (1) when the limit leaves no room; a realloc of the caller's array
\* releases it
Allocated(d) ==
  IF d.size # d.capacity THEN d
  ELSE IF d.size >= NewCapacity(d)
  THEN [d EXCEPT !.err = "ERROR: Memory limit too low",
                 !.lent_freed = d.lent_freed \/ d.borrowed]
  ELSE [d EXCEPT !.capacity = NewCapacity(d),
                 !.lent_freed = d.lent_freed \/ d.borrowed, !.borrowed = FALSE]

\* da::_add_block; the result is [d, bi]
_add_block(d) ==
  Bind(Allocated(d), LAMBDA d1 :
  IF ~Running(d1) THEN [d |-> d1, bi |-> Shr8(d1.size) - 1]
  ELSE
  Bind(d.size, LAMBDA s :
  Bind([d1 EXCEPT
          !.array = d.array \o [j \in 1 .. 256 |->
                       IF j = 1 THEN node(-(s + 255), -(s + 1))
                       ELSE IF j = 256 THEN node(-(s + 254), -s)
                       ELSE node(-(s + j - 2), -(s + j))],
          !.ninfo = d.ninfo \o [j \in 1 .. 256 |-> ninfo0],
          !.block = Append(d.block, [block0 EXCEPT !.ehead = s]),
          !.size = s + 256,
          !.over = d.over \/ Shr8(s) >= MaxBlocks], LAMBDA d2 :
  Bind(_push_block(d2, Shr8(s), "O", d2.bheadO = 0), LAMBDA d3 :
       [d |-> d3, bi |-> Shr8(d3.size) - 1]))))

\* da::_find_place (): the result is [d, e]
_find_place0(d) ==
  Placed(IF d.bheadC # 0 THEN [d |-> ChkB(d, d.bheadC), e |-> RdB(d, d.bheadC).ehead]
         ELSE IF d.bheadO # 0
         THEN [d |-> ChkB(d, d.bheadO), e |-> RdB(d, d.bheadO).ehead]
         ELSE Bind(_add_block(d), LAMBDA r : [d |-> r.d, e |-> r.bi * 256]))

\* a _pop_enode that moves a block left with one empty slot from Open to Closed also
\* when a failed trial has closed it before
_pop_enodeAnyTrial(d, base_, label, from) ==
  Bind(IF base_ < 0 THEN _find_place0(d) ELSE [d |-> d, e |-> XOR(base_, label)], LAMBDA fp :
  LET e  == fp.e
      bi == Shr8(fp.e)
  IN
  Bind(WrB(ChkB(ChkA(Taken(fp.d, e, from), e), bi), bi, "num", RdB(fp.d, bi).num - 1),
       LAMBDA d1 :
  Bind(IF RdB(d1, bi).num = 0
       THEN IF bi # 0 THEN _transfer_block(d1, bi, "C", "F") ELSE d1
       ELSE Bind(WrCheck(d1, -RdA(d1, e).base_, RdA(d1, e).check), LAMBDA a1 :
            Bind(WrBase(a1, -RdA(a1, e).check, RdA(a1, e).base_), LAMBDA a2 :
            Bind(IF e = RdB(a2, bi).ehead
                 THEN WrB(a2, bi, "ehead", -RdA(a2, e).check) ELSE a2, LAMBDA a3 :
                 IF bi # 0 /\ RdB(a3, bi).num = 1
                 THEN _transfer_block(a3, bi, "O", "C") ELSE a3))), LAMBDA d2 :
  \* initialize the released node
  Bind(WrA(d2, e, node(IF d.reduced THEN VALUE_LIMIT ELSE IF label # 0 THEN -1 ELSE 0,
                       from)), LAMBDA d3 :
       [d |-> IF base_ < 0
              THEN WrBase(d3, from, IF d.reduced THEN -XOR(e, label) - 1 ELSE XOR(e, label))
              ELSE d3,
        e |-> e]))))

\* da::_pop_enode: the result is [d, e]
_pop_enode(d, base_, label, from) ==
  Bind(IF base_ < 0 THEN _find_place0(d) ELSE [d |-> d, e |-> XOR(base_, label)], LAMBDA fp :
  LET e  == fp.e
      bi == Shr8(fp.e)
  IN
  Bind(WrB(ChkB(ChkA(Taken(fp.d, e, from), e), bi), bi, "num", RdB(fp.d, bi).num - 1),
       LAMBDA d1 :
  Bind(IF RdB(d1, bi).num = 0
       THEN IF bi # 0 THEN _transfer_block(d1, bi, "C", "F") ELSE d1
       ELSE Bind(WrCheck(d1, -RdA(d1, e).base_, RdA(d1, e).check), LAMBDA a1 :
            Bind(WrBase(a1, -RdA(a1, e).check, RdA(a1, e).base_), LAMBDA a2 :
            Bind(IF e = RdB(a2, bi).ehead
                 THEN WrB(a2, bi, "ehead", -RdA(a2, e).check) ELSE a2, LAMBDA a3 :
                 IF bi # 0 /\ RdB(a3, bi).num = 1 /\ RdB(a3, bi).trial # MAX_TRIAL
                 THEN _transfer_block(a3, bi, "O", "C") ELSE a3))), LAMBDA d2 :
  \* initialize the released node
  Bind(WrA(d2, e, node(IF d.reduced THEN VALUE_LIMIT ELSE IF label # 0 THEN -1 ELSE 0,
                       from)), LAMBDA d3 :
       [d |-> IF base_ < 0
              THEN WrBase(d3, from, IF d.reduced THEN -XOR(e, label) - 1 ELSE XOR(e, label))
              ELSE d3,
        e |-> e]))))

\* the last statements of _push_enode, for the block bi with num empty slots
PushRejected(d2, bi, e, num) ==
  WrI(IF num \notin 0 .. 256 THEN Fault(d2)
      ELSE IF RdB(d2, bi).reject < d2.reject[num + 1]
      THEN WrB(d2, bi, "reject", d2.reject[num + 1]) ELSE d2,
      e, ninfo0)

\* da::_push_enode
_push_enode(d, e) ==
  LET bi == Shr8(e)
  IN
  Bind(WrB(ChkB(d, bi), bi, "num", RdB(d, bi).num + 1), LAMBDA d1 :
  Bind(IF RdB(d1, bi).num = 1
       THEN Bind(WrA(WrB(d1, bi, "ehead", e), e, node(-e, -e)), LAMBDA a1 :
                 IF bi # 0 THEN _transfer_block(a1, bi, "F", "C") ELSE a1)
       ELSE Bind(RdB(d1, bi).ehead, LAMBDA prev :
            Bind(-RdA(d1, prev).check, LAMBDA next :
            Bind(WrCheck(WrBase(WrA(ChkA(d1, prev), e, node(-prev, -next)), next, -e),
                         prev, -e), LAMBDA a3 :
                 WrB(IF (RdB(a3, bi).num = 2 \/ RdB(a3, bi).trial = MAX_TRIAL) /\ bi # 0
                     THEN _transfer_block(a3, bi, "C", "O") ELSE a3,
                     bi, "trial", 0)))), LAMBDA d2 :
       PushRejected(d2, bi, e, RdB(d2, bi).num)))

\* ------------------------------------------------------------ sibling lists
\* a uchar* into _ninfo: the field f ("child" or "sibling") of _ninfo[slot]
Ptr(slot, f) == [slot |-> slot, f |-> f]
Deref(d, c) == RdI(d, c.slot)[c.f]
WrPtr(d, c, v) == IF InA(d, c.slot) THEN [d EXCEPT !.ninfo[c.slot + 1][c.f] = v] ELSE Fault(d)

\* do c = &_ninfo[base ^ *c].sibling; while (ORDERED && *c && *c < label);
PushStep(d, base_, label, s) ==
  LET c1 == Ptr(XOR(base_, Deref(d, s.c)), "sibling")
  IN  IF ~InA(d, c1.slot) THEN [c |-> c1, stop |-> TRUE, bad |-> TRUE]
      ELSE [c |-> c1, stop |-> ~(ORDERED /\ Deref(d, c1) # 0 /\ Deref(d, c1) < label),
            bad |-> FALSE]

PushWalk(d, base_, label, c) ==
  Bind(Iterate(LAMBDA s : PushStep(d, base_, label, s),
               [c |-> c, stop |-> FALSE, bad |-> FALSE], 257), LAMBDA r :
       [c |-> r.c, bad |-> r.bad \/ ~r.stop])

\* da::_push_sibling: push label to from's child
_push_sibling(d, from, base_, label, flag) ==
  Bind(IF flag /\ (IF ORDERED THEN label > Deref(d, Ptr(from, "child"))
                   ELSE Deref(d, Ptr(from, "child")) = 0)
       THEN PushWalk(d, base_, label, Ptr(from, "child"))
       ELSE [c |-> Ptr(from, "child"), bad |-> FALSE], LAMBDA w :
  Bind(IF w.bad THEN Fault(d) ELSE ChkA(d, from), LAMBDA d1 :
       WrPtr(WrSibling(d1, XOR(base_, label), Deref(d1, w.c)), w.c, label)))

\* while (*c != label) c = &_ninfo[base ^ *c].sibling;
PopStep(d, base_, label, s) ==
  IF ~InA(d, s.c.slot) THEN [c |-> s.c, stop |-> TRUE, bad |-> TRUE]
  ELSE IF Deref(d, s.c) # label
       THEN [c |-> Ptr(XOR(base_, Deref(d, s.c)), "sibling"), stop |-> FALSE, bad |-> FALSE]
       ELSE [c |-> s.c, stop |-> TRUE, bad |-> FALSE]

PopWalk(d, base_, label, c) ==
  Bind(Iterate(LAMBDA s : PopStep(d, base_, label, s),
               [c |-> c, stop |-> FALSE, bad |-> FALSE], 258), LAMBDA r :
       [c |-> r.c, bad |-> r.bad \/ ~r.stop])

\* da::_pop_sibling: pop label from from's child
_pop_sibling(d, from, base_, label) ==
  Bind(PopWalk(d, base_, label, Ptr(from, "child")), LAMBDA w :
  Bind(IF w.bad THEN Fault(d) ELSE ChkA(d, XOR(base_, label)), LAMBDA d1 :
       WrPtr(d1, w.c, RdI(d1, XOR(base_, label)).sibling)))

\* da::_consult: whether the newly added node has fewer siblings; [flag, bad]
ConsultStep(d, base_n, base_p, s) ==
  Bind(XOR(base_n, s.c_n), LAMBDA tn :
  Bind(XOR(base_p, s.c_p), LAMBDA tp :
  Bind(~InA(d, tn) \/ ~InA(d, tp), LAMBDA oob :
       [c_n |-> RdI(d, tn).sibling, c_p |-> RdI(d, tp).sibling,
        stop |-> oob \/ ~(RdI(d, tn).sibling # 0 /\ RdI(d, tp).sibling # 0), bad |-> oob])))

_consult(d, base_n, base_p, c_n, c_p) ==
  Bind(Iterate(LAMBDA s : ConsultStep(d, base_n, base_p, s),
               [c_n |-> c_n, c_p |-> c_p, stop |-> FALSE, bad |-> FALSE], 257), LAMBDA r :
       [flag |-> r.c_p # 0, bad |-> r.bad \/ ~r.stop])

\* while (c && c < lim) { *++p = c; c = _ninfo[base ^ c].sibling; }; [c, out, bad]
TakeStep(d, base_, lim, s) ==
  IF s.c = 0 \/ s.c >= lim THEN [s EXCEPT !.stop = TRUE]
  ELSE IF ~InA(d, XOR(base_, s.c)) THEN [s EXCEPT !.stop = TRUE, !.bad = TRUE]
  ELSE [s EXCEPT !.c = RdI(d, XOR(base_, s.c)).sibling, !.out = Append(s.out, s.c)]

TakeLabels(d, base_, c, lim, out) ==
  Bind(Iterate(LAMBDA s : TakeStep(d, base_, lim, s),
               [c |-> c, out |-> out, stop |-> FALSE, bad |-> FALSE], 258), LAMBDA r :
       [c |-> r.c, out |-> r.out, bad |-> r.bad \/ ~r.stop])

\* da::_set_child: enumerate the child labels, label (if not -1) put in order;
\* [child, bad], child the buffer first .. last
_set_child(d, base_, c, label) ==
  Bind(IF c = 0
       THEN [c |-> RdI(d, XOR(base_, c)).sibling, out |-> <<0>>, bad |-> ~InA(d, XOR(base_, c))]
       ELSE [c |-> c, out |-> <<>>, bad |-> FALSE], LAMBDA s0 :
  Bind(IF ORDERED THEN TakeLabels(d, base_, s0.c, label, s0.out)
       ELSE [c |-> s0.c, out |-> s0.out, bad |-> FALSE], LAMBDA s1 :
  Bind(TakeLabels(d, base_, s1.c, 256,
                  IF label # -1 THEN Append(s1.out, label) ELSE s1.out), LAMBDA s3 :
       [child |-> s3.out, bad |-> s0.bad \/ s1.bad \/ s3.bad])))

\* ------------------------------------------------------------ a place for a group of children
\* a _find_place that takes the first empty slot for the first child, whatever the
\* slots of the other children hold
NoConflictUnchecked(d, e, child) == TRUE

\* for (p = first; _array[base ^ *++p].check < 0; ) if (p == last) return ...
NoConflict(d, e, child) ==
  \A i \in 2 .. Len(child) : RdA(d, XOR(XOR(e, child[1]), child[i])).check < 0

\* the walk of one block's empty ring from ehead; [found, e, bad]
RingStep(d, child, ehead, s) ==
  IF ~InA(d, s.e) THEN [s EXCEPT !.stop = TRUE, !.bad = TRUE]
  ELSE IF NoConflict(d, s.e, child) THEN [s EXCEPT !.stop = TRUE, !.found = TRUE]
  ELSE IF -RdA(d, s.e).check = ehead THEN [s EXCEPT !.stop = TRUE]
  ELSE [s EXCEPT !.e = -RdA(d, s.e).check]

RingScan(d, child, e, ehead) ==
  Bind(Iterate(LAMBDA s : RingStep(d, child, ehead, s),
               [e |-> e, found |-> FALSE, stop |-> FALSE, bad |-> FALSE], 257), LAMBDA r :
       [found |-> r.found, e |-> r.e, bad |-> r.bad \/ ~r.stop])

\* one step along next from the head of the Open ring; s is [bi, seen]
OpenStep(d, s) ==
  IF s.bi \in s.seen \/ ~InB(d, s.bi) THEN [s EXCEPT !.stop = TRUE]
  ELSE [s EXCEPT !.bi = RdB(d, s.bi).next, !.seen = s.seen \cup {s.bi}]

\* the blocks on the Open ring
OpenBlocks(d) ==
  IF d.bheadO = 0 THEN {}
  ELSE Iterate(LAMBDA s : OpenStep(d, s),
               [bi |-> d.bheadO, seen |-> {}, stop |-> FALSE], MaxBlocks + 2).seen

\* _find_place (first, last) is entered for the labels child
Entered(d, child) ==
  IF ~d.tracing THEN d
  ELSE [d EXCEPT !.log = Append(@, [ev |-> "enter", child |-> child, size |-> d.size,
                                    open |-> OpenBlocks(d), fault |-> d.fault])]

\* one turn of while (1): the block bi is the candidate; walked tells whether the walk
\* of its empty ring, if there was one, came to an end
Examined(d, bi, sc) ==
  IF ~d.tracing THEN d
  ELSE [d EXCEPT !.log = Append(@, [ev |-> "scan", bi |-> bi, walked |-> ~sc.bad,
                                    found |-> sc.found])]

\* _find_place (first, last) returns the slot r.e: whether the slots of the group are
\* empty there
PlacedGroup(r, child) ==
  IF ~r.d.tracing THEN r
  ELSE [d |-> [r.d EXCEPT !.log =
                 Append(@, [ev |-> "place", e |-> r.e, fault |-> r.d.fault,
                            fits |-> /\ RdA(r.d, r.e).check < 0
                                     /\ NoConflict(r.d, r.e, child)])],
        e |-> r.e]

\* the walk of the Open ring from bi to bz; [d, found, e]
RECURSIVE BlockScan(_, _, _, _, _)
BlockScan(d, child, bi, bz, fuel) ==
  Bind(Len(child), LAMBDA nc :
  Bind(RdB(d, bi), LAMBDA b :
  Bind(IF b.num >= nc /\ nc < b.reject
       THEN RingScan(d, child, b.ehead, b.ehead)
       ELSE [found |-> FALSE, e |-> 0, bad |-> FALSE], LAMBDA sc :
       IF fuel = 0 \/ ~InB(d, bi) \/ sc.bad \/ b.num \notin 0 .. 256
       THEN [d |-> Fault(Examined(d, bi, sc)), found |-> FALSE, e |-> 0]
       ELSE IF sc.found
       THEN [d |-> WrB(Examined(d, bi, sc), bi, "ehead", sc.e), found |-> TRUE, e |-> sc.e]
       ELSE Bind(WrB(Examined(d, bi, sc), bi, "reject", nc), LAMBDA d1 :
            Bind(WrB(IF nc < d1.reject[b.num + 1]
                     THEN [d1 EXCEPT !.reject[b.num + 1] = nc] ELSE d1,
                     bi, "trial", b.trial + 1), LAMBDA d3 :
            Bind(IF b.trial + 1 = MAX_TRIAL
                 THEN _transfer_block(d3, bi, "O", "C") ELSE d3, LAMBDA d4 :
                 CASE Done(d4) ->
                   IF bi = bz THEN [d |-> d4, found |-> FALSE, e |-> 0]
                   ELSE BlockScan(d4, child, b.next, bz, fuel - 1)))))))

\* a _find_place (first, last) whose walk of the Open ring is not ended at bz
_find_placeNoEnd(d, child) ==
  Bind(IF d.bheadO # 0
       THEN BlockScan(ChkB(Entered(d, child), d.bheadO), child, d.bheadO, 0,
                      Shr8(d.size) + 1)
       ELSE [d |-> Entered(d, child), found |-> FALSE, e |-> 0], LAMBDA sc :
       PlacedGroup(IF sc.found THEN [d |-> sc.d, e |-> sc.e]
                   ELSE Bind(_add_block(sc.d), LAMBDA r : [d |-> r.d, e |-> r.bi * 256]),
                   child))

\* da::_find_place (first, last): the result is [d, e]
_find_place(d, child) ==
  Bind(IF d.bheadO # 0
       THEN BlockScan(ChkB(Entered(d, child), d.bheadO), child, d.bheadO,
                      RdB(d, d.bheadO).prev, Shr8(d.size) + 1)
       ELSE [d |-> Entered(d, child), found |-> FALSE, e |-> 0], LAMBDA sc :
       PlacedGroup(IF sc.found THEN [d |-> sc.d, e |-> sc.e]
                   ELSE Bind(_add_block(sc.d), LAMBDA r : [d |-> r.d, e |-> r.bi * 256]),
                   child))

\* ------------------------------------------------------------ conflict resolution
\* do _array[n.base () ^ c].check = to; while ((c = _ninfo[n.base () ^ c].sibling));
AdjustStep(nbase, to, s) ==
  Bind(XOR(nbase, s.c), LAMBDA g :
  Bind(WrCheck(s.d, g, to), LAMBDA d1 :
  Bind(RdI(d1, g).sibling, LAMBDA c1 :
       [d |-> d1, c |-> c1, stop |-> ~(c1 # 0 /\ InA(d1, g))])))

\* a _resolve that leaves the children of a moved node pointing at its old slot
AdjustGrandsonsNone(d, nbase, c, to) == d

AdjustGrandsons(d, nbase, c, to) ==
  Bind(Iterate(LAMBDA s : AdjustStep(nbase, to, s), [d |-> d, c |-> c, stop |-> FALSE], 257),
       LAMBDA r : IF r.stop THEN r.d ELSE Fault(r.d))

\* the last statements of one turn of the loop of _resolve, to the node moved from
\* to_ to to, or to_ pushed back to the empty ring
ResolveMoved(d3, to, to_, from_n, x) ==
  [d |-> IF ~x.flag /\ to_ = x.to_pn
         THEN Bind(_push_sibling(d3, from_n, XOR(x.to_pn, x.label_n), x.label_n, TRUE),
                   LAMBDA a1 :
                   WrCheck(WrBase(WrChild(a1, to_, 0), to_,
                                  IF d3.reduced THEN VALUE_LIMIT
                                  ELSE IF x.label_n # 0 THEN -1 ELSE 0),
                           to_, from_n))
         ELSE _push_enode(d3, to_),
   from_n |-> from_n]

\* a turn of the loop of _resolve that leaves from_n as it is when the parent of the
\* newcomer moves
ResolveStepNoRebind(s, i, child, x) ==
  Bind(_pop_enode(s.d, x.base, child[i], x.from), LAMBDA pe :
       LET to  == pe.e
           to_ == XOR(x.base_, child[i])
       IN  Bind(WrSibling(pe.d, to, IF i = Len(child) THEN 0 ELSE child[i + 1]),
                LAMBDA d1 :
           IF x.flag /\ to_ = x.to_pn THEN [d |-> d1, from_n |-> s.from_n] \* skip newcomer
           ELSE Bind(WrBase(ChkA(Called(d1, to_, to), to_), to, RdA(d1, to_).base_),
                     LAMBDA d2 :
                Bind(IF (IF d2.reduced THEN RdA(d2, to).base_ < 0
                         ELSE RdA(d2, to).base_ > 0) /\ child[i] # 0
                     THEN AdjustGrandsons(WrChild(d2, to, RdI(d2, to_).child),
                                          base_of(d2, RdA(d2, to)), RdI(d2, to_).child, to)
                     ELSE d2, LAMBDA d3 :
                     ResolveMoved(d3, to, to_,
                                  s.from_n,
                                  x)))))

\* one turn of the loop of _resolve for child[i]; s is [d, from_n]
ResolveStep(s, i, child, x) ==
  Bind(_pop_enode(s.d, x.base, child[i], x.from), LAMBDA pe :
       LET to  == pe.e
           to_ == XOR(x.base_, child[i])
       IN  Bind(WrSibling(pe.d, to, IF i = Len(child) THEN 0 ELSE child[i + 1]),
                LAMBDA d1 :
           IF x.flag /\ to_ = x.to_pn THEN [d |-> d1, from_n |-> s.from_n] \* skip newcomer
           ELSE Bind(WrBase(ChkA(Called(d1, to_, to), to_), to, RdA(d1, to_).base_),
                     LAMBDA d2 :
                Bind(IF (IF d2.reduced THEN RdA(d2, to).base_ < 0
                         ELSE RdA(d2, to).base_ > 0) /\ child[i] # 0
                     THEN AdjustGrandsons(WrChild(d2, to, RdI(d2, to_).child),
                                          base_of(d2, RdA(d2, to)), RdI(d2, to_).child, to)
                     ELSE d2, LAMBDA d3 :
                     ResolveMoved(d3, to, to_,
                                  IF ~x.flag /\ to_ = s.from_n THEN to ELSE s.from_n,
                                  x)))))

\* for (const uchar* p = first; p <= last; ++p) over child[1 .. Len (child)]
ResolveTurn(t, child, x) ==
  IF t.i > Len(child) THEN [t EXCEPT !.stop = TRUE]
  ELSE Bind(ResolveStep(t, t.i, child, x), LAMBDA s1 :
            [d |-> s1.d, from_n |-> s1.from_n, i |-> t.i + 1, stop |-> FALSE])

ResolveLoop(s, child, x) ==
  Bind(Iterate(LAMBDA t : ResolveTurn(t, child, x),
               [d |-> s.d, from_n |-> s.from_n, i |-> 1, stop |-> FALSE], 258), LAMBDA r :
       [d |-> r.d, from_n |-> r.from_n])

\* the statements of _resolve from the choice of the new base on: cs is the result
\* of _consult, child the labels to move, fp the place found for them
ResolvePlaced(d, from_n, base_n, label_n, to_pn, from_p, base_p, flag, child, fp) ==
  LET base1 == XOR(fp.e, child[1])
      from  == IF flag THEN from_n ELSE from_p
      x     == [base |-> base1, from |-> from, base_ |-> IF flag THEN base_n ELSE base_p,
                flag |-> flag, to_pn |-> to_pn, label_n |-> label_n]
  IN  Bind(WrBase(IF flag /\ child[1] = label_n THEN WrChild(fp.d, from, label_n)
                  ELSE fp.d, from, IF d.reduced THEN -base1 - 1 ELSE base1), LAMBDA d2 :
      Bind(ResolveLoop([d |-> Rebased(d2, from, x.base_, base1, flag, child),
                        from_n |-> from_n], child, x), LAMBDA r :
           [d |-> Resolved(r.d, IF flag THEN XOR(base1, label_n) ELSE to_pn, r.from_n),
            to |-> IF flag THEN XOR(base1, label_n) ELSE to_pn,
            from |-> r.from_n]))

\* an access of _resolve outside the arrays is undefined behaviour
ResolveChecked(d, bad, to_pn, from_p, from_n) ==
  IF bad \/ ~InA(d, to_pn) \/ ~InA(d, from_p) \/ ~InA(d, from_n) THEN Fault(d) ELSE d

\* da::_resolve: resolve the conflict on base_n ^ label_n = base_p ^ label_p;
\* the result is [d, to, from] with from the (possibly moved) from_n
_resolve(d, from_n, base_n, label_n) ==
  LET to_pn  == XOR(base_n, label_n)
      from_p == RdA(d, to_pn).check
      base_p == base_of(d, RdA(d, from_p))
  IN  Bind(_consult(d, base_n, base_p, RdI(d, from_n).child, RdI(d, from_p).child),
           LAMBDA cs :
      Bind(IF cs.flag THEN _set_child(d, base_n, RdI(d, from_n).child, label_n)
           ELSE _set_child(d, base_p, RdI(d, from_p).child, -1), LAMBDA sc :
      Bind(IF Len(sc.child) = 1
           THEN _find_place0(ResolveChecked(Conflict(d, from_n, from_p, label_n, to_pn),
                                            cs.bad \/ sc.bad, to_pn, from_p, from_n))
           ELSE _find_place(ResolveChecked(Conflict(d, from_n, from_p, label_n, to_pn),
                                           cs.bad \/ sc.bad \/ Len(sc.child) > 256,
                                           to_pn, from_p, from_n), sc.child),
           LAMBDA fp :
           ResolvePlaced(d, from_n, base_n, label_n, to_pn, from_p, base_p, cs.flag,
                         sc.child, fp))))

\* da::_follow: follow/create the edge; the result is [d, to, from]
_follow(d, from, label) ==
  LET base_ == base_of(d, RdA(d, from))
      to    == XOR(base_, label)
      d0    == IF base_ < 0 THEN ChkA(d, from) ELSE ChkA(ChkA(d, from), to)
  IN  IF base_ < 0 \/ RdA(d, to).check < 0
      THEN Bind(_pop_enode(d0, base_, label, from), LAMBDA pe :
                [d |-> _push_sibling(pe.d, from, XOR(pe.e, label), label, base_ >= 0),
                 to |-> pe.e, from |-> from])
      ELSE IF RdA(d, to).check # from THEN _resolve(d0, from, base_, label)
      ELSE [d |-> d0, to |-> to, from |-> from]

\* ------------------------------------------------------------ search
\* da::_find: [ret, from, pos, bad]; key is a sequence of bytes, pos counts bytes read
RECURSIVE _find(_, _, _, _, _)
_find(d, key, from, pos, len) ==
  IF d.reduced /\ RdA(d, from).base_ >= 0
  THEN \* the loop breaks at a leaf, whose word is the value
       [ret |-> IF pos = len /\ InA(d, from) THEN RdA(d, from).base_ ELSE NO_PATH,
        from |-> from, pos |-> pos, bad |-> ~InA(d, from)]
  ELSE IF pos < len
  THEN Bind(XOR(base_of(d, RdA(d, from)), key[pos + 1]), LAMBDA to :
            IF ~InA(d, from) \/ ~InA(d, to)
            THEN [ret |-> NO_PATH, from |-> from, pos |-> pos, bad |-> TRUE]
            ELSE IF RdA(d, to).check # from
                 THEN [ret |-> NO_PATH, from |-> from, pos |-> pos, bad |-> FALSE]
                 ELSE _find(d, key, to, pos + 1, len))
  ELSE Bind(XOR(base_of(d, RdA(d, from)), 0), LAMBDA t :
       Bind(RdA(d, t), LAMBDA n :
            IF ~InA(d, from) \/ ~InA(d, t)
            THEN [ret |-> NO_VALUE, from |-> from, pos |-> pos, bad |-> TRUE]
            ELSE IF n.check # from
                 THEN [ret |-> NO_VALUE, from |-> from, pos |-> pos, bad |-> FALSE]
                 ELSE [ret |-> base_of(d, n), from |-> from, pos |-> pos, bad |-> FALSE]))

\* da::exactMatchSearch (key, len): [value, bad]; with bad the search read outside
\* the arrays and no value is guaranteed
exactMatchSearch(d, key) ==
  Bind(_find(d, key, 0, 0, Len(key)), LAMBDA r :
       [value |-> IF r.ret = NO_PATH THEN NO_VALUE ELSE r.ret, bad |-> r.bad])

\* da::traverse (key, from, pos, len): [ret, from, pos, bad]; the value_type is as
\* wide as baseindex, so that b.x is b.i
traverse(d, key, from, pos, len) == _find(d, key, from, pos, len)

\* ------------------------------------------------------------ restore
\* one turn of the outer loop of _restore_block, for the block bi; s is [d, bi]:
\* num counts the slots of the block with a negative check, ehead is the first of them
RestoreBlockStep(s) ==
  IF s.bi * BLOCK >= s.d.size THEN [s EXCEPT !.stop = TRUE]
  ELSE Bind({e \in (s.bi * BLOCK) .. (s.bi * BLOCK + 255) : RdA(s.d, e).check < 0},
            LAMBDA es :
       Bind(Cardinality(es), LAMBDA num :
       Bind(IF num = 1 THEN "C" ELSE IF num = 0 THEN "F" ELSE "O", LAMBDA head_out :
       Bind([ChkA(s.d, s.bi * BLOCK + 255) EXCEPT
               !.block[s.bi + 1].num = num,
               !.block[s.bi + 1].ehead =
                  IF num = 0 THEN 0 ELSE CHOOSE e \in es : \A x \in es : e <= x],
            LAMBDA d1 :
            [s EXCEPT !.d = _push_block(d1, s.bi, head_out,
                                        BHead(d1, head_out) = 0 /\ num # 0),
                      !.bi = s.bi + 1]))))

\* da::_restore_block
_restore_block(d) ==
  Bind([d EXCEPT !.block = [bi \in 1 .. Shr8(d.size) |-> block0],
                 !.bheadF = 0, !.bheadC = 0, !.bheadO = 0], LAMBDA d0 :
       Iterate(RestoreBlockStep, [d |-> d0, bi |-> 0, stop |-> FALSE],
               Shr8(d.size) + 2).d)

\* one turn of the loop of _restore_ninfo, for the slot to; s is [d, to]
RestoreNinfoStep(s) ==
  IF s.to >= s.d.size THEN [s EXCEPT !.stop = TRUE]
  ELSE Bind(RdA(s.d, s.to).check, LAMBDA from :
       IF from < 0 THEN [s EXCEPT !.to = s.to + 1]
       ELSE Bind(base_of(s.d, RdA(s.d, from)), LAMBDA base_ :
            Bind(XOR(base_, s.to) % 256, LAMBDA label :
            Bind(ChkA(s.d, from), LAMBDA d1 :
                 IF label = 0 THEN [s EXCEPT !.d = d1, !.to = s.to + 1]
                 ELSE IF from = 0 \/ RdI(d1, from).child # 0
                 THEN [s EXCEPT !.d = _push_sibling(d1, from, base_, label, TRUE),
                                !.to = s.to + 1]
                 ELSE [s EXCEPT !.d = _push_sibling(ChkA(d1, base_), from, base_, label,
                                                    RdA(d1, base_).check = from),
                                !.to = s.to + 1]))))

\* da::_restore_ninfo
_restore_ninfo(d) ==
  Iterate(RestoreNinfoStep,
          [d |-> [d EXCEPT !.ninfo = [i \in 1 .. d.size |-> ninfo0]], to |-> 0,
           stop |-> FALSE],
          d.size + 1).d

\* da::restore: restore information to update
restore(d) ==
  Bind(IF d.block = <<>> THEN _restore_block(d) ELSE d, LAMBDA d1 :
  Bind(IF d1.ninfo = <<>> THEN _restore_ninfo(d1) ELSE d1, LAMBDA d2 :
       [d2 EXCEPT !.capacity = d2.size]))

\* ------------------------------------------------------------ update
\* the loop of da::update over key[pos .. len); s is [d, from]
\* reduced trie, in the loop of update: a node whose word is a value gets a child of
\* label 0, which takes the value; _follow may move from.  The result is [d, from]
MoveValue(s) ==
  IF s.d.reduced /\ RdA(s.d, s.from).base_ >= 0 /\ RdA(s.d, s.from).base_ # VALUE_LIMIT
  THEN Bind(_follow(s.d, s.from, 0), LAMBDA r :
            [d |-> WrBase(r.d, r.to, RdA(s.d, s.from).base_), from |-> r.from])
  ELSE s

RECURSIVE UpdateLoop(_, _, _, _)
UpdateLoop(s, key, pos, len) ==
  IF pos < len
  THEN Bind(MoveValue(s), LAMBDA s0 :
       Bind(_follow(s0.d, s0.from, key[pos + 1]), LAMBDA r :
            CASE Done(r.d) -> UpdateLoop([d |-> r.d, from |-> r.to], key, pos + 1, len)))
  ELSE s

\* the node of the value, after the loop of update: [d, to, from]; in a reduced trie
\* it is from itself when from is a leaf
ValueNode(d, from) ==
  IF d.reduced /\ RdA(d, from).base_ >= 0
  THEN [d |-> ChkA(d, from), to |-> from, from |-> from]
  ELSE _follow(d, from, 0)

\* _array[to].value += val, after if (_array[to].value == CEDAR_VALUE_LIMIT)
\* _array[to].value = 0 in a reduced trie
AddValue(d, to, val) ==
  WrBase(d, to, (IF d.reduced /\ RdA(d, to).base_ = VALUE_LIMIT THEN 0
                 ELSE RdA(d, to).base_) + val)

\* update without the test of the zero-length key
updateAny(d, key, from, pos, len, val) ==
  Bind(IF d.ninfo = <<>> \/ d.block = <<>> THEN restore(d) ELSE d, LAMBDA d0 :
  Bind(UpdateLoop([d |-> d0, from |-> from], key, pos, len), LAMBDA s :
  Bind(CASE Done(s.d) -> ValueNode(s.d, s.from), LAMBDA r :
  Bind(CASE Done(r.d) -> AddValue(r.d, r.to, val), LAMBDA d1 :
       [d |-> d1, from |-> r.from, pos |-> IF pos < len THEN len ELSE pos, to |-> r.to,
        ret |-> RdA(d1, r.to).base_]))))

\* da::update (key, from, pos, len, val, cf): [d, from, pos, to, ret], ret the value
\* the returned reference designates
update(d, key, from, pos, len, val) ==
  IF len = 0 /\ from = 0
  THEN [d |-> _err(d, "failed to insert zero-length key\n"), from |-> from, pos |-> pos,
        to |-> 0, ret |-> 0]
  ELSE Bind(IF d.ninfo = <<>> \/ d.block = <<>> THEN restore(d) ELSE d, LAMBDA d0 :
       Bind(UpdateLoop([d |-> d0, from |-> from], key, pos, len), LAMBDA s :
       Bind(CASE Done(s.d) -> ValueNode(s.d, s.from), LAMBDA r :
       Bind(CASE Done(r.d) -> AddValue(r.d, r.to, val), LAMBDA d1 :
            [d |-> d1, from |-> r.from, pos |-> IF pos < len THEN len ELSE pos,
             to |-> r.to, ret |-> RdA(d1, r.to).base_]))))

\* ------------------------------------------------------------ erase
\* one turn of the do-while loop of da::erase (from); s is [d, from, e]
EraseStep(s) ==
  Bind(RdA(s.d, s.from), LAMBDA n :
  Bind(XOR(base_of(s.d, n), RdI(s.d, s.from).child), LAMBDA fc :
  Bind(RdI(s.d, fc).sibling # 0, LAMBDA flag :
  Bind(IF InA(s.d, s.from) /\ InA(s.d, fc) THEN s.d ELSE Fault(s.d), LAMBDA d0 :
  Bind(IF flag THEN _pop_sibling(d0, s.from, base_of(s.d, n), XOR(base_of(s.d, n), s.e) % 256)
       ELSE d0, LAMBDA d1 :
  Bind(CASE Done(d1) -> _push_enode(ChkA(d1, s.e), s.e), LAMBDA d2 :
       [d |-> d2, from |-> RdA(d2, s.from).check, e |-> s.from,
        stop |-> flag \/ d2.fault]))))))

\* da::erase (size_t from); it calls no restore: with a null _ninfo or _block its
\* first turn reads through a null pointer
erase_from(d, from) ==
  IF d.ninfo = <<>> \/ d.block = <<>> THEN Fault(d)
  ELSE Bind(IF d.reduced /\ RdA(d, from).base_ >= 0 THEN from
            ELSE XOR(base_of(d, RdA(d, from)), 0), LAMBDA e :
       Bind(Iterate(EraseStep, [d |-> IF d.reduced THEN ChkA(d, e) ELSE d,
                                from |-> IF d.reduced THEN RdA(d, e).check ELSE from,
                                e |-> e, stop |-> FALSE], 257), LAMBDA r :
            IF r.stop THEN r.d ELSE Fault(r.d)))

\* da::erase (key, len): [d, ret]
erase(d, key) ==
  Bind(_find(d, key, 0, 0, Len(key)), LAMBDA r :
       IF r.bad THEN [d |-> Fault(d), ret |-> -1]
       ELSE IF r.ret = NO_PATH \/ r.ret = NO_VALUE THEN [d |-> d, ret |-> -1]
       ELSE [d |-> erase_from(d, r.from), ret |-> 0])

\* ------------------------------------------------------------ the life of the arrays
\* a clear that leaves the heads of the block rings as they are
clearKeepHeads(d, reuse) ==
  Bind([d EXCEPT !.array = <<>>, !.ninfo = <<>>, !.block = <<>>,
                 !.lent_freed = d.lent_freed \/ (d.borrowed /\ ~d.no_delete),
                 !.borrowed = FALSE,
                 !.capacity = 0, !.size = 0], LAMBDA d1 :
       [(IF reuse THEN _initialize(d1) ELSE d1) EXCEPT !.no_delete = FALSE])

\* da::clear (reuse): _array is freed unless _no_delete, then the members are reset
clear(d, reuse) ==
  Bind([d EXCEPT !.array = <<>>, !.ninfo = <<>>, !.block = <<>>,
                 !.lent_freed = d.lent_freed \/ (d.borrowed /\ ~d.no_delete),
                 !.borrowed = FALSE,
                 !.bheadF = 0, !.bheadC = 0, !.bheadO = 0,
                 !.capacity = 0, !.size = 0], LAMBDA d1 :
       [(IF reuse THEN _initialize(d1) ELSE d1) EXCEPT !.no_delete = FALSE])

\* da::~da
destroy(d) == clear(d, FALSE)

\* da::set_array (p, size_): p is the caller's array of size_ nodes
set_array(d, p) ==
  [clear(d, FALSE) EXCEPT !.array = p, !.size = Len(p), !.no_delete = TRUE,
                          !.lent = p, !.borrowed = TRUE]

\* da::set_max_alloc
set_max_alloc(d, max) == [d EXCEPT !.max_alloc = max]

\* da::save: the file written, the _size nodes of _array
save(d) == d.array

\* da::open (fn) on a file of nodes: [d, ret]; only _array is read, _ninfo and
\* _block stay null and _capacity 0
open(d, file) ==
  IF Len(file) = 0 THEN [d |-> d, ret |-> -1]
  ELSE [d |-> [clear(d, FALSE) EXCEPT !.array = file, !.size = Len(file)], ret |-> 0]

\* ------------------------------------------------------------ queries
\* da::nonzero_size
nonzero_size(d) == Cardinality({to \in 0 .. (d.size - 1) : RdA(d, to).check >= 0})

\* da::num_keys: [n, bad]; bad when _array[_array[to].check] is outside the array
num_keys(d) ==
  [n   |-> Cardinality({to \in 0 .. (d.size - 1) :
                          /\ RdA(d, to).check >= 0
                          /\ IF d.reduced THEN RdA(d, to).base_ >= 0
                             ELSE base_of(d, RdA(d, RdA(d, to).check)) = to}),
   bad |-> ~d.reduced /\ \E to \in 0 .. (d.size - 1) : RdA(d, to).check >= d.size]

\* the loop of da::commonPrefixSearch; s is [from, pos, num, out, bad]
RECURSIVE SearchLoop(_, _, _, _, _)
SearchLoop(d, key, len, result_len, s) ==
  IF ~(s.pos < len) THEN s
  ELSE LET r  == _find(d, key, s.from, s.pos, s.pos + 1)
           s1 == [s EXCEPT !.from = r.from, !.pos = r.pos]
       IN  IF r.bad THEN [s1 EXCEPT !.bad = TRUE]
           ELSE IF r.ret = NO_VALUE THEN SearchLoop(d, key, len, result_len, s1)
           ELSE IF r.ret = NO_PATH THEN s1
           ELSE SearchLoop(d, key, len, result_len,
                  [s1 EXCEPT !.num = s.num + 1,
                             !.out = IF s.num < result_len
                                     THEN Append(s.out, [value |-> r.ret, length |-> r.pos])
                                     ELSE s.out])

\* da::commonPrefixSearch (key, result, result_len, len) with result_pair_type:
\* [num, out, bad], out the elements of result written, in index order
commonPrefixSearch(d, key, result_len) ==
  LET r == SearchLoop(d, key, Len(key), result_len,
                      [from |-> 0, pos |-> 0, num |-> 0, out |-> <<>>, bad |-> FALSE])
  IN  [num |-> r.num, out |-> r.out, bad |-> r.bad]

\* for (; c; ++len) { from = _array[from].base () ^ c; c = _ninfo[from].child; }
BeginStep(d, s) ==
  IF s.c = 0 THEN [s EXCEPT !.stop = TRUE]
  ELSE LET from == XOR(base_of(d, RdA(d, s.from)), s.c)
       IN  IF ~InA(d, s.from) \/ ~InA(d, from) THEN [s EXCEPT !.stop = TRUE, !.bad = TRUE]
           ELSE [s EXCEPT !.from = from, !.c = RdI(d, from).child, !.len = s.len + 1]

\* da::begin (from, len): [ret, from, len, bad].  len is a size_t; the model keeps
\* the signed reading of the word
begin(d, from, len) ==
  LET base_ == base_of(d, RdA(d, from))
      c0    == RdI(d, from).child
      c     == IF from = 0 THEN RdI(d, XOR(base_, c0)).sibling ELSE c0
      oob   == ~InA(d, from) \/ (from = 0 /\ ~InA(d, XOR(base_, c0)))
  IN  IF oob THEN [ret |-> NO_PATH, from |-> from, len |-> len, bad |-> TRUE]
      ELSE IF from = 0 /\ c = 0 THEN [ret |-> NO_PATH, from |-> from, len |-> len, bad |-> FALSE]
      ELSE LET r == Iterate(LAMBDA s : BeginStep(d, s),
                            [from |-> from, c |-> c, len |-> len, stop |-> FALSE, bad |-> FALSE],
                            d.size + 1)
               t == XOR(base_of(d, RdA(d, r.from)), r.c)
               leaf == d.reduced /\ RdA(d, r.from).base_ >= 0
           IN  [ret |-> IF leaf THEN RdA(d, r.from).base_ ELSE base_of(d, RdA(d, t)),
                from |-> r.from, len |-> r.len,
                bad |-> r.bad \/ ~r.stop \/ ~InA(d, r.from) \/ (~leaf /\ ~InA(d, t))]

\* for (; ! c && from != root; --len) { c = _ninfo[from].sibling; from = _array[from].check; }
ClimbStep(d, root, s) ==
  IF s.c # 0 \/ s.from = root THEN [s EXCEPT !.stop = TRUE]
  ELSE IF ~InA(d, s.from) THEN [s EXCEPT !.stop = TRUE, !.bad = TRUE]
  ELSE [s EXCEPT !.c = RdI(d, s.from).sibling, !.from = RdA(d, s.from).check,
                 !.len = s.len - 1]

\* da::next (from, len, root): [ret, from, len, bad]
next(d, from, len, root) ==
  LET t0  == XOR(base_of(d, RdA(d, from)), 0)
      leaf == d.reduced /\ RdA(d, from).base_ >= 0
      oob == ~InA(d, from) \/ (~leaf /\ ~InA(d, t0))
      r   == Iterate(LAMBDA s : ClimbStep(d, root, s),
                     [c |-> IF leaf THEN 0 ELSE RdI(d, t0).sibling, from |-> from,
                      len |-> len, stop |-> oob,
                      bad |-> oob],
                     d.size + 1)
  IN  IF r.bad \/ ~r.stop \/ (r.c # 0 /\ ~InA(d, r.from))
      THEN [ret |-> NO_PATH, from |-> r.from, len |-> r.len, bad |-> TRUE]
      ELSE IF r.c # 0 THEN begin(d, XOR(base_of(d, RdA(d, r.from)), r.c), r.len + 1)
      ELSE [ret |-> NO_PATH, from |-> r.from, len |-> r.len, bad |-> FALSE]

\* one turn of for (b.i = begin (from, p); b.i != CEDAR_NO_PATH; b.i = next (from, p, root));
\* s is [b, num, out, stop, bad, err] with b the last result of begin / next
WalkStep(d, root, result_len, strict, s) ==
  IF s.b.bad THEN [s EXCEPT !.stop = TRUE, !.bad = TRUE]
  ELSE IF s.b.ret = NO_PATH THEN [s EXCEPT !.stop = TRUE]
  ELSE IF s.num < result_len
       THEN [s EXCEPT !.b = next(d, s.b.from, s.b.len, root), !.num = s.num + 1,
                      !.out = Append(s.out, [value |-> s.b.ret, length |-> s.b.len,
                                             id |-> s.b.from])]
       ELSE IF strict THEN [s EXCEPT !.stop = TRUE, !.err = TRUE]
       ELSE [s EXCEPT !.b = next(d, s.b.from, s.b.len, root), !.num = s.num + 1]

\* da::commonPrefixPredict (key, result, result_len, len) with result_triple_type:
\* [num, out, bad], out the elements of result written, in index order
commonPrefixPredict(d, key, result_len) ==
  LET f == _find(d, key, 0, 0, Len(key))
      r == Iterate(LAMBDA s : WalkStep(d, f.from, result_len, FALSE, s),
                   [b |-> begin(d, f.from, 0), num |-> 0, out |-> <<>>, stop |-> FALSE,
                    bad |-> FALSE, err |-> FALSE],
                   d.size + 1)
  IN  IF f.bad THEN [num |-> 0, out |-> <<>>, bad |-> TRUE]
      ELSE IF f.ret = NO_PATH THEN [num |-> 0, out |-> <<>>, bad |-> FALSE]
      ELSE [num |-> r.num, out |-> r.out, bad |-> r.bad \/ ~r.stop]

\* while (len--) { from = _array[to].check; key[len] = _array[from].base () ^ to; to = from; }
\* s is [to, len, key]
SuffixStep(d, s) ==
  IF s.len = 0 THEN [s EXCEPT !.stop = TRUE]
  ELSE LET from == RdA(d, s.to).check
       IN  IF ~InA(d, s.to) \/ ~InA(d, from) THEN [s EXCEPT !.stop = TRUE, !.bad = TRUE]
           ELSE [s EXCEPT !.to = from, !.len = s.len - 1,
                          !.key = <<XOR(base_of(d, RdA(d, from)), s.to) % 256>> \o s.key]

\* da::suffix (key, len, to): [key, bad], key the len bytes written
suffix(d, len, to) ==
  LET r == Iterate(LAMBDA s : SuffixStep(d, s),
                   [to |-> to, len |-> len, key |-> <<>>, stop |-> FALSE, bad |-> FALSE],
                   d.size + 1)
  IN  [key |-> r.key, bad |-> r.bad \/ ~r.stop]

\* da::dump (result, result_len) with result_triple_type: [out, err, bad], err when
\* the walk finds more than result_len keys (_err ends the program)
dump(d, result_len) ==
  LET r == Iterate(LAMBDA s : WalkStep(d, 0, result_len, TRUE, s),
                   [b |-> begin(d, 0, 0), num |-> 0, out |-> <<>>, stop |-> FALSE,
                    bad |-> FALSE, err |-> FALSE],
                   d.size + 1)
  IN  [out |-> r.out, err |-> r.err, bad |-> r.bad \/ ~r.stop]

\* da::build (num, key, len, val): update (key[i], len[i], val[i]) for i = 0 .. num-1.
\* buildRange (d, key, val, lo, hi) is the loop's iterations lo .. hi, in order, split
\* in halves so that the evaluation nests log (num) deep instead of num deep.
RECURSIVE buildRange(_, _, _, _, _)
buildRange(d, key, val, lo, hi) ==
  IF lo > hi THEN d
  ELSE IF lo = hi THEN update(d, key[lo], 0, 0, Len(key[lo]), val[lo]).d
  ELSE LET mid == (lo + hi) \div 2
           d1  == buildRange(d, key, val, lo, mid)
       IN  CASE Done(d1) -> buildRange(d1, key, val, mid + 1, hi)

build(d, key, val) == buildRange(d, key, val, 1, Len(key))

\* ------------------------------------------------------------ the calls made on one trie
\* the keys of update and erase: 1 .. MaxLen bytes, each in 1 .. MaxLabel
RECURSIVE KeysOfLen(_)
KeysOfLen(n) ==
  IF n = 0 THEN {<<>>}
  ELSE {Append(k, l) : k \in KeysOfLen(n - 1), l \in 1 .. MaxLabel}

Keys == UNION {KeysOfLen(n) : n \in 1 .. MaxLen}

Vals == 0 .. MaxVal

\* the keys of build: every one-byte key, in byte order, key i with the value i
ByteKeys == [i \in 1 .. (BLOCK - 1) |-> <<i>>]
ByteVals == [i \in 1 .. (BLOCK - 1) |-> i]

VARIABLES
  da,      \* the trie: _array, _ninfo, _block, _bheadF/C/O, _capacity, _size, _reject
  stored,  \* history: the keys inserted and not erased since, each with the sum of the
           \* val arguments of its update calls
  last,    \* history: the last call, [op, key, val, ret, moved]
  calls,   \* history: the number of calls made
  twin     \* a second instance, which opened the file the first one saved: [d, ret,
           \* restored, first] with d the trie, ret what its last call returned,
           \* restored whether restore was called after open and first the first call
           \* made on it; NoTwin before

vars == <<da, stored, last, calls, twin>>

NoTwin == <<>>

NoKey == <<>>

Call(op, key, val, ret, moved) ==
  [op |-> op, key |-> key, val |-> val, ret |-> ret, moved |-> moved]

Init ==
  /\ da = construct
  /\ stored = <<>>
  /\ last = Call("da", NoKey, 0, 0, FALSE)
  /\ calls = 0
  /\ twin = NoTwin

Add(st, k, v) ==
  IF k \in DOMAIN st THEN [st EXCEPT ![k] = @ + v]
  ELSE [x \in DOMAIN st \cup {k} |-> IF x = k THEN v ELSE st[x]]

Remove(st, k) == [x \in DOMAIN st \ {k} |-> st[x]]

\* the call relocated the node some stored key ends at
Moved(d, d1) ==
  \E k \in DOMAIN stored : _find(d, k, 0, 0, Len(k)).from # _find(d1, k, 0, 0, Len(k)).from

\* update (key, len, val)
Update(k, v) ==
  LET r == update(da, k, 0, 0, Len(k), v)
  IN  /\ ~da.fault /\ calls < MaxCalls
      /\ k \in DOMAIN stored => stored[k] + v <= MaxSum
      /\ ~r.d.over
      /\ da' = r.d
      /\ stored' = Add(stored, k, v)
      /\ last' = Call("update", k, v, r.ret, Moved(da, r.d))
      /\ calls' = calls + 1
      /\ UNCHANGED twin

\* update (key, len, val) with a key that was not inserted before
Insert(k, v) ==
  LET r == update(da, k, 0, 0, Len(k), v)
  IN  /\ ~da.fault /\ calls < MaxInserts
      /\ k \notin DOMAIN stored
      /\ ~r.d.over
      /\ da' = r.d
      /\ stored' = Add(stored, k, v)
      /\ last' = Call("update", k, v, r.ret, Moved(da, r.d))
      /\ calls' = calls + 1
      /\ UNCHANGED twin

\* erase (key, len)
Erase(k) ==
  LET r == erase(da, k)
  IN  /\ ~da.fault /\ calls < MaxCalls
      /\ da' = r.d
      /\ stored' = IF k \in DOMAIN stored THEN Remove(stored, k) ELSE stored
      /\ last' = Call("erase", k, 0, r.ret, FALSE)
      /\ calls' = calls + 1
      /\ UNCHANGED twin

\* build (255, keys, lens, vals) as the first call
Build ==
  /\ calls = 0
  /\ da' = build(da, ByteKeys, ByteVals)
  /\ stored' = [k \in {ByteKeys[i] : i \in 1 .. (BLOCK - 1)} |-> k[1]]
  /\ last' = Call("build", NoKey, 0, 0, FALSE)
  /\ calls' = calls + 1
  /\ UNCHANGED twin

Next ==
  \/ \E k \in Keys, v \in Vals : Update(k, v)
  \/ \E k \in Keys : Erase(k)
  \/ Build

Spec == Init /\ [][Next]_vars

\* the runs that only insert: every call an update with a key not inserted before
NextInsert ==
  \/ \E k \in Keys, v \in Vals : Insert(k, v)
  \/ Build

SpecInsert == Init /\ [][NextInsert]_vars

\* ------------------------------------------------------------ calls that end or reset
\* update (key, len, val), erase (key, len) and build in the runs of MaxLifeCalls calls
LifeUpdate(k, v) == Running(da) /\ calls < MaxLifeCalls /\ Update(k, v)

LifeErase(k) == Running(da) /\ calls < MaxLifeCalls /\ Erase(k)

\* update ("", 0, val): the zero-length key
UpdateEmpty(v) ==
  /\ ~da.fault /\ Running(da) /\ calls < MaxLifeCalls
  /\ da' = update(da, NoKey, 0, 0, 0, v).d
  /\ last' = Call("update", NoKey, v, 0, FALSE)
  /\ calls' = calls + 1
  /\ UNCHANGED <<stored, twin>>

\* clear (): last tells the number of keys the trie held, its size and whether a
\* node was tracked
Clear ==
  /\ ~da.fault /\ Running(da) /\ calls < MaxLifeCalls
  /\ da' = clear(da, TRUE)
  /\ stored' = <<>>
  /\ last' = Call("clear", NoKey, Cardinality(DOMAIN stored), da.size,
                  da.tracking_node # <<0>>)
  /\ calls' = calls + 1
  /\ UNCHANGED twin

\* tracking_node[0] = from, by the caller who follows the node update returned
Track(k) ==
  /\ ~da.fault /\ Running(da) /\ calls < MaxLifeCalls
  /\ k \in DOMAIN stored
  /\ da' = [da EXCEPT !.tracking_node[1] = _find(da, k, 0, 0, Len(k)).from]
  /\ last' = Call("track", k, 0, 0, FALSE)
  /\ calls' = calls + 1
  /\ UNCHANGED <<stored, twin>>

NextLife ==
  \/ \E k \in Keys, v \in Vals : LifeUpdate(k, v)
  \/ \E k \in Keys : LifeErase(k)
  \/ Build
  \/ \E v \in Vals : UpdateEmpty(v)
  \/ Clear
  \/ \E k \in Keys : Track(k)

SpecLife == Init /\ [][NextLife]_vars

\* ------------------------------------------------------------ save, open and go on
\* the runs of MaxOpenCalls calls in which the trie is saved once and a second
\* instance opens the file; from then on every call is made on both instances
OpenUpdate(k, v) == twin = NoTwin /\ Running(da) /\ calls < MaxOpenCalls /\ Update(k, v)

OpenErase(k) == twin = NoTwin /\ Running(da) /\ calls < MaxOpenCalls /\ Erase(k)

\* save (fn) on the first instance, then open (fn) on a fresh one, followed by
\* restore () when restoreFirst
Reopen(restoreFirst) ==
  LET o == open(construct, save(da))
  IN  /\ twin = NoTwin /\ ~da.fault /\ Running(da) /\ calls < MaxOpenCalls
      /\ twin' = [d |-> IF restoreFirst THEN restore(o.d) ELSE o.d, ret |-> o.ret,
                  restored |-> restoreFirst, first |-> ""]
      /\ last' = Call("open", NoKey, 0, o.ret, FALSE)
      /\ UNCHANGED <<da, stored, calls>>

\* update (key, len, val) on both instances
UpdateBoth(k, v) ==
  LET r == update(da, k, 0, 0, Len(k), v)
      t == update(twin.d, k, 0, 0, Len(k), v)
  IN  /\ twin # NoTwin /\ ~da.fault /\ ~twin.d.fault /\ calls < MaxOpenCalls
      /\ k \in DOMAIN stored => stored[k] + v <= MaxSum
      /\ ~r.d.over /\ ~t.d.over
      /\ da' = r.d
      /\ twin' = [twin EXCEPT !.d = t.d, !.ret = t.ret,
                              !.first = IF @ = "" THEN "update" ELSE @]
      /\ stored' = Add(stored, k, v)
      /\ last' = Call("update", k, v, r.ret, Moved(da, r.d))
      /\ calls' = calls + 1

\* erase (key, len) on both instances
EraseBoth(k) ==
  LET r == erase(da, k)
      t == erase(twin.d, k)
  IN  /\ twin # NoTwin /\ ~da.fault /\ ~twin.d.fault /\ calls < MaxOpenCalls
      /\ da' = r.d
      /\ twin' = [twin EXCEPT !.d = t.d, !.ret = t.ret,
                              !.first = IF @ = "" THEN "erase" ELSE @]
      /\ stored' = IF k \in DOMAIN stored THEN Remove(stored, k) ELSE stored
      /\ last' = Call("erase", k, 0, r.ret, FALSE)
      /\ calls' = calls + 1

NextOpen ==
  \/ \E k \in Keys, v \in Vals : OpenUpdate(k, v)
  \/ \E k \in Keys : OpenErase(k)
  \/ \E restoreFirst \in BOOLEAN : Reopen(restoreFirst)
  \/ \E k \in Keys, v \in Vals : UpdateBoth(k, v)
  \/ \E k \in Keys : EraseBoth(k)

SpecOpen == Init /\ [][NextOpen]_vars

\* ------------------------------------------------------------ an array of the caller
\* the arrays a caller hands to set_array and the files open reads: what save wrote
\* for a trie of up to MaxImageKeys keys
ImageOf(ks) == save(build(construct, ks, [i \in DOMAIN ks |-> MaxVal]))

Images == {ImageOf(ks) : ks \in UNION {[1 .. n -> Keys] : n \in 0 .. MaxImageKeys}}

\* the instance can be called: it was not destroyed, the program runs, and no call
\* before had undefined behavior
Alive == last.op # "~da" /\ Running(da) /\ ~da.fault /\ calls < MaxOwnCalls

\* set_array (p, size_)
SetArray(p) ==
  /\ Alive
  /\ da' = set_array(da, p)
  /\ last' = Call("set_array", NoKey, 0, 0, FALSE)
  /\ calls' = calls + 1
  /\ UNCHANGED <<stored, twin>>

\* update (key, len, val)
OwnUpdate(k, v) ==
  LET r == update(da, k, 0, 0, Len(k), v)
  IN  /\ Alive /\ ~r.d.over
      /\ da' = r.d
      /\ last' = Call("update", k, v, r.ret, FALSE)
      /\ calls' = calls + 1
      /\ UNCHANGED <<stored, twin>>

\* erase (key, len)
OwnErase(k) ==
  LET r == erase(da, k)
  IN  /\ Alive
      /\ da' = r.d
      /\ last' = Call("erase", k, 0, r.ret, FALSE)
      /\ calls' = calls + 1
      /\ UNCHANGED <<stored, twin>>

\* clear ()
OwnClear ==
  /\ Alive
  /\ da' = clear(da, TRUE)
  /\ last' = Call("clear", NoKey, 0, 0, FALSE)
  /\ calls' = calls + 1
  /\ UNCHANGED <<stored, twin>>

\* open (fn)
OwnOpen(file) ==
  LET r == open(da, file)
  IN  /\ Alive
      /\ da' = r.d
      /\ last' = Call("open", NoKey, 0, r.ret, FALSE)
      /\ calls' = calls + 1
      /\ UNCHANGED <<stored, twin>>

\* ~da ()
Destroy ==
  /\ Alive
  /\ da' = destroy(da)
  /\ last' = Call("~da", NoKey, 0, 0, FALSE)
  /\ calls' = calls + 1
  /\ UNCHANGED <<stored, twin>>

NextOwn ==
  \/ \E p \in Images : SetArray(p)
  \/ \E k \in Keys, v \in Vals : OwnUpdate(k, v)
  \/ \E k \in Keys : OwnErase(k)
  \/ OwnClear
  \/ \E file \in Images : OwnOpen(file)
  \/ Destroy

SpecOwn == Init /\ [][NextOwn]_vars

\* ------------------------------------------------------------ a limit on the memory
\* the limits a caller sets, in bytes: none, less than two blocks need, enough for
\* two blocks, enough for three and not for four, enough for four
Limits == {0, 9000, 9500, 14000, 20000}

\* set_max_alloc (max), before the first key is inserted
SetMaxAlloc(max) ==
  /\ last.op = "da"
  /\ da' = set_max_alloc(da, max)
  /\ last' = Call("set_max_alloc", NoKey, max, 0, FALSE)
  /\ UNCHANGED <<stored, calls, twin>>

CapUpdate(k, v) == Running(da) /\ calls < MaxCapCalls /\ Update(k, v)

CapErase(k) == Running(da) /\ calls < MaxCapCalls /\ Erase(k)

NextCap ==
  \/ \E max \in Limits : SetMaxAlloc(max)
  \/ \E k \in Keys, v \in Vals : CapUpdate(k, v)
  \/ \E k \in Keys : CapErase(k)
  \/ Build

SpecCap == Init /\ [][NextCap]_vars

\* ------------------------------------------------------------ the reduced trie
\* the program compiled with USE_REDUCED_TRIE: the runs that only insert, every call
\* an update with a key not inserted before and a value in [0, CEDAR_VALUE_LIMIT)
InitReduced ==
  /\ da = construct_as(TRUE)
  /\ stored = <<>>
  /\ last = Call("da", NoKey, 0, 0, FALSE)
  /\ calls = 0
  /\ twin = NoTwin

ReducedVals == Vals \cup {VALUE_LIMIT - 1}

ReducedInsert(k, v) == calls < MaxReducedInserts /\ Insert(k, v)

NextReduced ==
  \/ \E k \in Keys, v \in ReducedVals : ReducedInsert(k, v)
  \/ Build

SpecReduced == InitReduced /\ [][NextReduced]_vars

\* ------------------------------------------------------------ longer runs on fewer keys
\* update (key, len, val) and erase (key, len) in the runs of at most max calls
UpdateUpTo(max, k, v) ==
  LET r == update(da, k, 0, 0, Len(k), v)
  IN  /\ ~da.fault /\ calls < max
      /\ k \in DOMAIN stored => stored[k] + v <= MaxSum
      /\ ~r.d.over
      /\ da' = r.d
      /\ stored' = Add(stored, k, v)
      /\ last' = Call("update", k, v, r.ret, Moved(da, r.d))
      /\ calls' = calls + 1
      /\ UNCHANGED twin

EraseUpTo(max, k) ==
  LET r == erase(da, k)
  IN  /\ ~da.fault /\ calls < max
      /\ da' = r.d
      /\ stored' = IF k \in DOMAIN stored THEN Remove(stored, k) ELSE stored
      /\ last' = Call("erase", k, 0, r.ret, FALSE)
      /\ calls' = calls + 1
      /\ UNCHANGED twin

\* the runs that fill a block: first build of the 255 one-byte keys, which leaves one
\* empty slot in block 1, then update of two-byte keys and erase of those stored,
\* whose nodes are taken from and given back to the blocks 1 and 2
RingKeys == {<<1, 1>>, <<1, 3>>, <<2, 2>>, <<3, 1>>}

NextRings ==
  \/ Build
  \/ \E k \in RingKeys : calls > 0 /\ UpdateUpTo(MaxRingCalls, k, 0)
  \/ \E k \in RingKeys : calls > 0 /\ k \in DOMAIN stored /\ EraseUpTo(MaxRingCalls, k)

SpecRings == Init /\ [][NextRings]_vars

\* the runs on keys of two and three bytes below one child of the root: a node that
\* gets a child can itself be a child of the parent whose children _resolve moves
DeepKeys == {k \in KeysOfLen(2) \cup KeysOfLen(3) : k[1] = 1}

NextDeep ==
  \/ \E k \in DeepKeys, v \in Vals : UpdateUpTo(MaxDeepCalls, k, v)
  \/ \E k \in DeepKeys : EraseUpTo(MaxDeepCalls, k)

SpecDeep == Init /\ [][NextDeep]_vars

\* ------------------------------------------------------------ the properties
\* exactMatchSearch returned v, reading inside the arrays only
Got(v) == [value |-> v, bad |-> FALSE]

Min(a, b) == IF a < b THEN a ELSE b

IsPrefix(p, k) == Len(p) <= Len(k) /\ SubSeq(k, 1, Len(p)) = p

\* byte-wise lexicographic order, a proper prefix first
LexLess(a, b) ==
  \E i \in 1 .. (Len(a) + 1) :
    /\ i <= Len(b)
    /\ SubSeq(a, 1, i - 1) = SubSeq(b, 1, i - 1)
    /\ (i = Len(a) + 1 \/ a[i] < b[i])

\* the (value, length) of the stored prefixes of k of length n or more, shortest first
RECURSIVE StoredPrefixes(_, _)
StoredPrefixes(k, n) ==
  IF n > Len(k) THEN <<>>
  ELSE (IF SubSeq(k, 1, n) \in DOMAIN stored
        THEN <<[value |-> stored[SubSeq(k, 1, n)], length |-> n]>> ELSE <<>>)
       \o StoredPrefixes(k, n + 1)

\* the node n steps of check above the node to
RECURSIVE Up(_, _, _)
Up(d, to, n) == IF n <= 0 THEN to ELSE Up(d, RdA(d, to).check, n - 1)

\* C1: in a run of update calls with pairwise distinct non-empty keys (build is such
\* a run), exactMatchSearch returns, for every key inserted so far, the value it was
\* inserted with, whatever conflicts and relocations the later insertions caused.
InsertThenFind ==
  \A k \in DOMAIN stored : exactMatchSearch(da, k) = Got(stored[k])

\* C1's case: the last insertion relocated the node of a key inserted before it, three
\* or more keys are stored, and every one of them is found with its value
InsertThenFindWitness ==
  /\ last.op = "update" /\ last.moved
  /\ Cardinality(DOMAIN stored) >= 3
  /\ \A k \in DOMAIN stored : exactMatchSearch(da, k) = Got(stored[k])

\* C2: erase (k) of a stored key k changes the result of exactMatchSearch for no
\* other key k': the result after the call is the result before it, also when the
\* root has a child for every non-zero label.
EraseFrame ==
  [][(last'.op = "erase" /\ last'.key \in DOMAIN stored)
       => \A k \in Keys \ {last'.key} :
            /\ ~exactMatchSearch(da', k).bad
            /\ exactMatchSearch(da', k) = exactMatchSearch(da, k)]_vars

\* C3: from every reachable trie, after update (k, v) and then erase (k),
\* exactMatchSearch (k) returns NO_VALUE, and a following update (k, w) returns w and
\* makes w the stored value of k.
EraseCancelsInsert ==
  ~da.fault =>
    \A k \in Keys, v \in Vals, w \in Vals :
      LET d1 == update(da, k, 0, 0, Len(k), v).d
          d2 == erase(d1, k).d
          d3 == update(d2, k, 0, 0, Len(k), w)
      IN  (~d1.over /\ ~d3.d.over) =>
            /\ exactMatchSearch(d2, k) = Got(NO_VALUE)
            /\ d3.ret = w
            /\ exactMatchSearch(d3.d, k) = Got(w)

\* C4: after any calls, exactMatchSearch returns NO_VALUE for every key that is not
\* stored, and NO_PATH for no key.
AbsentIsNoValue ==
  /\ ~da.fault
  /\ \A k \in Keys \ DOMAIN stored : exactMatchSearch(da, k) = Got(NO_VALUE)
  /\ \A k \in Keys : exactMatchSearch(da, k).value # NO_PATH

\* C5: from every reachable trie, erase (k) returns 0 exactly when k is stored and -1
\* exactly when it is not, and a call that returns -1 leaves the trie as it was.
EraseReturn ==
  ~da.fault =>
    \A k \in Keys :
      LET r == erase(da, k)
      IN  /\ ~r.d.fault
          /\ r.ret \in {0, -1}
          /\ r.ret = 0 <=> k \in DOMAIN stored
          /\ r.ret = -1 => r.d = da

\* C6: after any update and erase calls, num_keys () is the number of keys stored.
NumKeysIsStored ==
  /\ ~da.fault
  /\ num_keys(da) = [n |-> Cardinality(DOMAIN stored), bad |-> FALSE]

\* C7: the value of every stored key is the sum of the val arguments of the update
\* calls made for it since it was created, update returns that sum, and an update
\* with val 0 of a stored key leaves its value as it was.
UpdateAdds ==
  /\ ~da.fault
  /\ \A k \in DOMAIN stored : exactMatchSearch(da, k).value = stored[k]
  /\ last.op = "update" => last.ret = stored[last.key]
  /\ \A k \in DOMAIN stored \cap Keys :
       LET r == update(da, k, 0, 0, Len(k), 0)
       IN  ~r.d.over => r.ret = stored[k] /\ exactMatchSearch(r.d, k) = Got(stored[k])

\* C8: commonPrefixSearch (k, out, cap) returns the number of stored non-empty
\* prefixes of k and writes the (value, length) of the first min (count, cap) of
\* them, shortest first, and nothing else.
PrefixSearch ==
  /\ ~da.fault
  /\ \A k \in Keys, cap \in 0 .. MaxLen :
       LET r == commonPrefixSearch(da, k, cap)
           e == StoredPrefixes(k, 1)
       IN  /\ ~r.bad
           /\ r.num = Len(e)
           /\ r.out = SubSeq(e, 1, Min(Len(e), cap))

\* C9: commonPrefixPredict (p) reports every stored key with the prefix p once, in
\* lexicographic order, returns their number (0 when there is none, whatever the
\* capacity of the result), and every node it reports lies below the node of p.
PredictEnumerates ==
  /\ ~da.fault
  /\ \A p \in {<<>>} \cup Keys :
       LET r  == commonPrefixPredict(da, p, da.size)
           E  == {k \in DOMAIN stored : IsPrefix(p, k)}
           ks == [j \in 1 .. Len(r.out) |-> suffix(da, r.out[j].length, r.out[j].id)]
       IN  /\ ~r.bad
           /\ r.num = Cardinality(E)
           /\ Len(r.out) = r.num
           /\ \A j \in 1 .. Len(r.out) :
                /\ ~ks[j].bad
                /\ Len(ks[j].key) = r.out[j].length
                /\ p \o ks[j].key \in E
                /\ stored[p \o ks[j].key] = r.out[j].value
                /\ Up(da, r.out[j].id, r.out[j].length) = _find(da, p, 0, 0, Len(p)).from
           /\ \A i, j \in 1 .. Len(r.out) :
                i < j => LexLess(p \o ks[i].key, p \o ks[j].key)
           /\ \A cap \in 0 .. MaxLen :
                LET c == commonPrefixPredict(da, p, cap)
                IN  c.num = r.num /\ c.out = SubSeq(r.out, 1, Min(cap, r.num))

\* C10: dump into a buffer of num_keys () entries fills it, suffix (length, id) of
\* every entry is a stored key whose exactMatchSearch value is the entry's value, and
\* the keys so reconstructed are the stored keys, each once.
DumpRoundTrip ==
  /\ ~da.fault
  /\ LET nk == num_keys(da)
         r  == dump(da, nk.n)
         ks == [j \in 1 .. Len(r.out) |-> suffix(da, r.out[j].length, r.out[j].id)]
     IN  /\ ~nk.bad /\ ~r.bad /\ ~r.err
         /\ Len(r.out) = nk.n
         /\ \A j \in 1 .. Len(r.out) :
              /\ ~ks[j].bad
              /\ ks[j].key \in DOMAIN stored
              /\ exactMatchSearch(da, ks[j].key) = Got(r.out[j].value)
         /\ {ks[j].key : j \in 1 .. Len(r.out)} = DOMAIN stored
         /\ \A i, j \in 1 .. Len(r.out) : i # j => ks[i].key # ks[j].key

\* the number of leading bytes of k that some stored key starts with
RECURSIVE Matched(_, _)
Matched(k, n) ==
  IF n < Len(k) /\ (\E x \in DOMAIN stored : IsPrefix(SubSeq(k, 1, n + 1), x))
  THEN Matched(k, n + 1) ELSE n

\* C11: traverse (k, from = 0, pos = 0, len) returns the value of k when k is stored,
\* NO_VALUE when k is not stored but starts a stored key, NO_PATH otherwise; on return
\* pos is the number of bytes of k matched and from the node those bytes lead to; a
\* traversal stopped after m bytes and resumed from its (from, pos) ends as the
\* traversal of the whole key does.
TraverseContract ==
  /\ ~da.fault
  /\ \A k \in Keys :
       LET full == traverse(da, k, 0, 0, Len(k))
           n    == Matched(k, 0)
           path == suffix(da, full.pos, full.from)
       IN  /\ ~full.bad
           /\ full.ret = (IF k \in DOMAIN stored THEN stored[k]
                          ELSE IF n = Len(k) THEN NO_VALUE ELSE NO_PATH)
           /\ full.pos = n
           /\ ~path.bad /\ path.key = SubSeq(k, 1, n)
           /\ Up(da, full.from, n) = 0
           /\ \A m \in 0 .. Len(k) :
                LET part == traverse(da, k, 0, 0, m)
                IN  traverse(da, k, part.from, part.pos, Len(k)) = full

\* slot c is occupied: it is the root or its check names a parent
Occupied(d, c) == InA(d, c) /\ (c = 0 \/ d.array[c + 1].check >= 0)

\* following check from slot c reaches the root within n steps, through occupied slots
RECURSIVE ReachesRoot(_, _, _)
ReachesRoot(d, c, n) ==
  \/ c = 0
  \/ /\ n > 0 /\ Occupied(d, c)
     /\ ReachesRoot(d, d.array[c + 1].check, n - 1)

\* C19: after every update and erase, every occupied non-root slot c has a check that
\* is the root or an occupied slot, base (A[check[c]]) XOR c is a label in 0 .. 255, so
\* that c lies in the 256-slot block of its parent's base, and following check from c
\* reaches the root.
XorAddressing ==
  /\ ~da.fault
  /\ \A c \in 1 .. (da.size - 1) :
       da.array[c + 1].check >= 0 =>
         LET p == da.array[c + 1].check
         IN  /\ Occupied(da, p)
             /\ XOR(base(RdA(da, p)), c) \in 0 .. 255
             /\ Shr8(base(RdA(da, p))) = Shr8(c)
             /\ ReachesRoot(da, c, MaxLen + 1)

\* one turn of the walk over the children of a node: s is [c, out], c the label the
\* walk stands at, out the labels seen; the walk ends at the sibling 0
RingStep20(d, b, s) ==
  IF s.c = 0 THEN [s EXCEPT !.stop = TRUE]
  ELSE [s EXCEPT !.out = Append(s.out, s.c), !.c = RdI(d, XOR(b, s.c)).sibling,
                 !.bad = s.bad \/ ~InA(d, XOR(b, s.c))]

\* the labels met from _ninfo[p].child along the sibling links: [out, bad].  A child
\* of 0 is the label 0 when the slot base ^ 0 is a child of p (the test of
\* _restore_ninfo); the root, whose base ^ 0 is the root itself, keeps a child of 0 and
\* its walk goes on from the sibling of that slot (as begin reads it); any other node
\* with a child of 0 and no slot base ^ 0 has no child
SiblingWalk(d, p) ==
  LET b  == base(RdA(d, p))
      c  == RdI(d, p).child
      z  == c = 0 /\ InA(d, b) /\ d.array[b + 1].check = p
      s0 == [c |-> IF c = 0 /\ (z \/ p = 0) THEN RdI(d, b).sibling ELSE c,
             out |-> IF z THEN <<0>> ELSE <<>>,
             stop |-> FALSE, bad |-> c = 0 /\ p = 0 /\ ~InA(d, b)]
      r  == Iterate(LAMBDA s : RingStep20(d, b, s), s0, BLOCK + 1)
  IN  [out |-> r.out, bad |-> r.bad \/ ~r.stop]

\* the labels l with check[base (p) ^ l] = p
ChildLabels(d, p) ==
  {l \in 0 .. 255 : LET e == XOR(base(RdA(d, p)), l)
                    IN  InA(d, e) /\ e # 0 /\ d.array[e + 1].check = p}

\* C20: after every update and erase, for every occupied node p, the walk from
\* I[p].child along the sibling links meets exactly the labels l with
\* check[base (p) XOR l] = p, each once, in strictly increasing order, and ends at 0.
SiblingRingComplete ==
  /\ ~da.fault
  /\ \A p \in 0 .. (da.size - 1) :
       Occupied(da, p) =>
         LET w == SiblingWalk(da, p)
         IN  /\ ~w.bad
             /\ {w.out[i] : i \in 1 .. Len(w.out)} = ChildLabels(da, p)
             /\ \A i \in 1 .. (Len(w.out) - 1) : w.out[i] < w.out[i + 1]

\* C17: update with a zero-length key from the root ends the program with the message
\* of _err, and no slot of A, I or B, nor any other member, is modified before.
ZeroLengthIsFatal ==
  (Running(da) /\ ~da.fault) =>
    \A v \in Vals :
      LET r == update(da, NoKey, 0, 0, 0, v)
      IN  /\ ~Running(r.d)
          /\ r.d = [da EXCEPT !.err = "failed to insert zero-length key\n"]

\* the zero-length update was called on a trie that holds keys
ZeroLengthWitness ==
  /\ last.op = "update" /\ last.key = NoKey
  /\ ~Running(da) /\ DOMAIN stored # {}

\* C18: clear (true), after any sequence of calls, gives the state of a freshly
\* constructed trie: no key is stored, size and capacity are 256, the three ring heads
\* are 0, slots 1 .. 255 are the empty ring of block 0 with ehead 1, the reject table
\* and the tracking node are reset; a second clear (true) changes nothing.
ClearResets ==
  (Running(da) /\ ~da.fault) =>
    LET c == clear(da, TRUE)
    IN  /\ c.size = 256 /\ c.capacity = 256
        /\ c.bheadF = 0 /\ c.bheadC = 0 /\ c.bheadO = 0
        /\ c.array = construct.array /\ c.ninfo = construct.ninfo
        /\ c.block = construct.block /\ c.block[1].ehead = 1
        /\ \A i \in 1 .. 255 : c.array[i + 1].check < 0
        /\ c.reject = construct.reject
        /\ c.tracking_node = <<0>>
        /\ ~c.no_delete
        /\ num_keys(c) = [n |-> 0, bad |-> FALSE]
        /\ \A k \in Keys : exactMatchSearch(c, k) = Got(NO_VALUE)
        /\ clear(c, TRUE) = c

\* clear (true) was called on a trie with keys, a second block and a tracking node
ClearWitness ==
  /\ last.op = "clear" /\ last.val > 0 /\ last.ret > 256 /\ last.moved
  /\ da.size = 256 /\ da.tracking_node = <<0>>
\* the results both instances give to a caller: every exactMatchSearch and num_keys
Answers(d) ==
  [found |-> [k \in Keys \cup {<<BLOCK - 1>>} |-> exactMatchSearch(d, k)],
   keys  |-> num_keys(d)]

\* C13: a trie that was saved, opened into a fresh instance and restored gives, after
\* every further update and erase, the results of the trie that never left memory:
\* the same result of the call itself, of every exactMatchSearch and of num_keys
RestoredBehavesAlike ==
  (twin # NoTwin /\ twin.restored /\ ~da.fault) =>
    /\ ~twin.d.fault
    /\ Running(twin.d) = Running(da)
    /\ twin.ret = last.ret
    /\ Answers(twin.d) = Answers(da)

\* C14: after open loaded the node array alone, the first mutating call, update or
\* erase, builds _ninfo and _block through restore before it reads or writes them:
\* it makes no access through a null _ninfo or _block
FirstCallRestores ==
  (twin # NoTwin /\ ~twin.restored /\ twin.first # "" /\ ~da.fault) =>
    /\ ~twin.d.fault
    /\ (twin.first = "update" \/ last.ret = 0) =>
         twin.d.ninfo # <<>> /\ twin.d.block # <<>>

\* C15: after set_array installed an array of the caller, no operation of the trie
\* writes to it, reallocates it or frees it: while _array points to it, it holds
\* what the caller put there, and it was never passed to realloc or free
BorrowedArrayUntouched ==
  /\ ~da.lent_freed
  /\ da.borrowed => da.array = da.lent

\* C16: under a limit of max_alloc > 0 bytes, when _add_block has to grow, twice the
\* capacity needs more than the limit and one more block of 256 slots fits, then
\* _add_block succeeds with a capacity of at least one more block, within the limit;
\* and the program never ends with "Memory limit too low" when one more block fits
StepGrowth ==
  /\ ( /\ Running(da) /\ ~da.fault
       /\ da.size = da.capacity /\ da.max_alloc > 0
       /\ DesiredAlloc(da.capacity + da.capacity) > da.max_alloc
       /\ DesiredAlloc(da.size + 256) <= da.max_alloc )
     => LET r == _add_block(da).d
        IN  /\ Running(r)
            /\ r.capacity >= da.size + 256
            /\ DesiredAlloc(r.capacity) <= da.max_alloc
            /\ r.size = da.size + 256
  /\ da.err = "ERROR: Memory limit too low" =>
       DesiredAlloc(da.size + 256) > da.max_alloc

\* C12: in a reduced trie, after any sequence of update calls with pairwise distinct
\* keys and values in [0, CEDAR_VALUE_LIMIT), exactMatchSearch returns for every key
\* inserted the value it was inserted with, also for a key that is a proper prefix of
\* a key inserted later, whose value moved to a child of label 0
ReducedInsertThenFind ==
  da.reduced => \A k \in DOMAIN stored : exactMatchSearch(da, k) = Got(stored[k])

\* the empty slots of block k: the slots with a negative check, but for the root
EmptySlots(d, k) ==
  {e \in (k * BLOCK) .. (k * BLOCK + BLOCK - 1) : e # 0 /\ RdA(d, e).check < 0}

\* the empty ring of block k is closed and B[k].num counts it
RingClosed(d, k) ==
  LET b == RdB(d, k)
      w == RingWalk(d, b.ehead, b.num)
  IN  /\ b.num = Cardinality(EmptySlots(d, k))
      /\ b.num > 0 => /\ w.n = b.num
                      /\ w.seen = EmptySlots(d, k)
                      /\ w.e = b.ehead

\* C21: between operations, for every block k, block 0 included, the walk along
\* -check from B[k].ehead visits exactly B[k].num slots, all of block k and all with
\* check < 0, and is back at ehead; B[k].num is the number of empty slots of block k
EmptyRingClosure ==
  (Running(da) /\ ~da.fault /\ da.block # <<>>) =>
    \A k \in 0 .. (Shr8(da.size) - 1) : RingClosed(da, k)

\* the blocks met from the block bi along next, until one is met again
RECURSIVE BlocksFrom(_, _, _, _)
BlocksFrom(d, bi, seen, fuel) ==
  IF fuel = 0 \/ ~InB(d, bi) \/ bi \in seen THEN seen
  ELSE BlocksFrom(d, RdB(d, bi).next, seen \cup {bi}, fuel - 1)

\* the blocks linked from the head h along next; a head of 0 is the empty ring
BlockChain(d, h) ==
  IF BHead(d, h) = 0 THEN {} ELSE BlocksFrom(d, BHead(d, h), {}, Shr8(d.size) + 1)

\* the blocks on the ring of the head h.  _push_block links a block with num = 0 to an
\* empty Full ring through _block[0], whose prev and next then hold the ends of the
\* ring: block 0 is the end mark of that ring, not one of its blocks
OnBlockRing(d, h) == BlockChain(d, h) \ {0}

\* the ring the counters of block k ask for
RingOfBlock(d, k) ==
  IF RdB(d, k).num = 0 THEN "F"
  ELSE IF RdB(d, k).num = 1 \/ RdB(d, k).trial = MAX_TRIAL THEN "C"
  ELSE "O"

\* C22: between operations every block k # 0 is on exactly one of the rings Full,
\* Closed and Open, the one its counters ask for: Full iff num = 0, otherwise Closed
\* iff num = 1 or trial = MAX_TRIAL, otherwise Open; block 0 is never moved to the
\* Closed or the Open ring
BlockState ==
  (Running(da) /\ ~da.fault /\ da.block # <<>>) =>
    /\ \A k \in 1 .. (Shr8(da.size) - 1) : \A h \in {"F", "C", "O"} :
         k \in OnBlockRing(da, h) <=> h = RingOfBlock(da, k)
    /\ \A h \in {"C", "O"} : 0 \notin BlockChain(da, h)

\* a block was closed by a failed trial of _find_place and another block is open
BlockStateWitness ==
  /\ Running(da) /\ ~da.fault
  /\ \E k \in 1 .. (Shr8(da.size) - 1) :
       RdB(da, k).trial = MAX_TRIAL /\ k \in OnBlockRing(da, "C")
  /\ OnBlockRing(da, "O") # {}

\* the steps of update (key, len, 0) called in the state d, in order
StepsOfUpdate(d, k) == update(Traced(d), k, 0, 0, Len(k), 0).d.log

\* every slot taken is empty, on the empty ring of its block and not the root
TakesEmpty(lg) ==
  \A i \in DOMAIN lg :
    lg[i].ev = "take" => lg[i].free /\ lg[i].ring /\ lg[i].e # 0

\* C23: every slot _pop_enode takes, chosen by _find_place (), by _find_place (first,
\* last) for a group of children or addressed as base ^ label in _follow, has check < 0
\* and is on the empty ring of its block when it is taken, and is never slot 0
NoOccupiedTaken ==
  (Running(da) /\ ~da.fault) =>
    \A k \in Keys : Bind(StepsOfUpdate(da, k), TakesEmpty)

\* a call in which slots are taken for a group of two or more children that
\* _find_place (first, last) placed, after the slot _follow addressed was found taken
GroupTaken(lg) ==
  \E i \in DOMAIN lg : \E j \in DOMAIN lg :
    /\ lg[i].ev = "base" /\ Len(lg[i].child) >= 2
    /\ j > i /\ lg[j].ev = "take" /\ lg[j].from = lg[i].from

NoOccupiedTakenWitness ==
  /\ Running(da) /\ ~da.fault
  /\ \E k \in Keys : Bind(StepsOfUpdate(da, k), GroupTaken)

\* the slots of the group that moves to the base of the step b
GroupSlots(b) == {XOR(b.new, b.child[i]) : i \in DOMAIN b.child}

\* no child of a parent is given its check after the parent was given its new base
ChecksFirst(lg) ==
  \A i \in DOMAIN lg : \A j \in DOMAIN lg :
    (/\ lg[i].ev = "base" /\ lg[j].ev = "take"
     /\ lg[j].from = lg[i].from /\ lg[j].e \in GroupSlots(lg[i])) => j < i

\* C24: inside _resolve the check of every child that moves is set to its parent
\* before the base of that parent is set to the new place of the group, so that no
\* step leaves a base that points to children whose check does not name the parent
ChecksBeforeBase ==
  (Running(da) /\ ~da.fault) =>
    \A k \in Keys : Bind(StepsOfUpdate(da, k), ChecksFirst)

\* the labels in the sequence child are those of the set ls, in increasing order
InLabelOrder(child, ls) ==
  /\ {child[i] : i \in DOMAIN child} = ls
  /\ \A i \in DOMAIN child : \A j \in DOMAIN child : i < j => child[i] < child[j]

\* the entry c of one _resolve, the step b in which it writes the base and its return
\* e: the side with fewer children moved, the side met on a tie
SmallerMoves(c, b, e) ==
  IF Cardinality(c.kids_n) < Cardinality(c.kids_p)
  THEN /\ b.from = c.from_n
       /\ InLabelOrder(b.child, {XOR(b.old, s) : s \in c.kids_n} \cup {c.label_n})
       /\ e.to = XOR(b.new, c.label_n)
  ELSE /\ b.from = c.from_p
       /\ InLabelOrder(b.child, {XOR(b.old, s) : s \in c.kids_p})
       /\ e.to = c.to_pn

\* the step i of the log is the entry of a _resolve that returned: the steps of
\* _find_place and the step "base" follow the entry, then the takes and the calls of
\* cf, then the step "done"
ResolveAt(lg, i) ==
  /\ lg[i].ev = "resolve"
  /\ \E j \in DOMAIN lg : j > i /\ lg[j].ev = "base"
  /\ \E j \in DOMAIN lg : j > i /\ lg[j].ev = "done"

\* the index of the step in which the _resolve entered at step i writes the base
BaseOf(lg, i) ==
  CHOOSE j \in DOMAIN lg :
    /\ j > i /\ lg[j].ev = "base"
    /\ \A m \in DOMAIN lg : (m > i /\ lg[m].ev = "base") => j <= m

\* the index of the return of the _resolve entered at step i
DoneOf(lg, i) ==
  CHOOSE j \in DOMAIN lg :
    /\ j > i /\ lg[j].ev = "done"
    /\ \A m \in DOMAIN lg : (m > i /\ lg[m].ev = "done") => j <= m

EverySmallerMoves(lg) ==
  \A i \in DOMAIN lg :
    ResolveAt(lg, i) => SmallerMoves(lg[i], lg[BaseOf(lg, i)], lg[DoneOf(lg, i)])

CallsOf(lg, i) == {m \in (i + 1) .. (DoneOf(lg, i) - 1) : lg[m].ev = "cf"}

\* the children the moving parent of the _resolve entered at step i had at the entry
MovingChildren(lg, i) ==
  IF lg[BaseOf(lg, i)].from = lg[i].from_n THEN lg[i].kids_n ELSE lg[i].kids_p

\* cf is called once for each child the moving parent had, with its old and its new
\* slot, and for nothing else, the newcomer's slot in particular
OncePerChild(lg, i) ==
  /\ \A s \in MovingChildren(lg, i) :
       /\ Cardinality({m \in CallsOf(lg, i) : lg[m].to_ = s}) = 1
       /\ \A m \in CallsOf(lg, i) :
            lg[m].to_ = s => lg[m].to = XOR(lg[BaseOf(lg, i)].new, XOR(lg[BaseOf(lg, i)].old, s))
  /\ \A m \in CallsOf(lg, i) :
       lg[m].to_ \in MovingChildren(lg, i) /\ lg[m].to # lg[DoneOf(lg, i)].to

EveryOncePerChild(lg) ==
  \A i \in DOMAIN lg : ResolveAt(lg, i) => OncePerChild(lg, i)

PushedOnto(h, bi) ==
  /\ Running(da) /\ ~da.fault /\ Running(da') /\ ~da'.fault
  /\ da.block # <<>> /\ Len(da'.block) >= Len(da.block)
  /\ OnBlockRing(da, h) # {}
  /\ OnBlockRing(da', h) = OnBlockRing(da, h) \cup {bi}
  /\ bi \notin OnBlockRing(da, h)

\* C27: _push_block of the block bi onto a ring that is not empty links bi in front of
\* the current head, at the tail, and keeps the head, so that a walk from the head
\* visits the block pushed last as the last one
PushedIsLast ==
  [][\A h \in {"F", "C", "O"} : \A bi \in 1 .. MaxBlocks :
       PushedOnto(h, bi) =>
         /\ BHead(da', h) = BHead(da, h)
         /\ RdB(da', BHead(da, h)).prev = bi]_vars

\* C27 as the code has it: the block pushed is linked in front of the head the ring had
\* and is the new head, so that a walk from the head visits it first
PushedIsHead ==
  [][\A h \in {"F", "C", "O"} : \A bi \in 1 .. MaxBlocks :
       PushedOnto(h, bi) =>
         /\ BHead(da', h) = bi
         /\ RdB(da', bi).next = BHead(da, h)
         /\ RdB(da', BHead(da, h)).prev = bi]_vars

\* a ring of two blocks, the second of which was pushed onto the ring of the first
PushedIsHeadWitness ==
  /\ Running(da) /\ ~da.fault
  /\ \E h \in {"F", "C", "O"} :
       /\ Cardinality(OnBlockRing(da, h)) >= 2
       /\ RdB(da, BHead(da, h)).next \in OnBlockRing(da, h) \ {BHead(da, h)}

\* update (key, from, pos, len, val) called in the state d at the node st that the
\* first p bytes of k reach: pos is len and from the node the bytes of k reach then
ReturnsNodeFrom(d, k, p, st) ==
  Bind(update(d, k, st.from, p, Len(k), 0), LAMBDA r :
       (Running(r.d) /\ ~r.d.fault /\ ~r.d.over) =>
         /\ r.pos = Len(k)
         /\ Bind(_find(r.d, k, 0, 0, Len(k)), LAMBDA f :
                 /\ ~f.bad /\ f.ret # NO_PATH /\ f.ret # NO_VALUE
                 /\ r.from = f.from))

\* the same for every node on the path of k in d, the root included
ReturnsNode(d, k) ==
  /\ ReturnsNodeFrom(d, k, 0, [from |-> 0])
  /\ \A p \in 1 .. (Len(k) - 1) :
       Bind(_find(d, k, 0, 0, p), LAMBDA st :
            (~st.bad /\ st.ret # NO_PATH) => ReturnsNodeFrom(d, k, p, st))

\* C28: when update (key, from, pos, len, val) returns, pos is len and from is the
\* slot of the node the bytes of the key reach, also when _resolve moved that node
\* during the call, as a child of the parent whose children moved
UpdateReturnsNode ==
  (Running(da) /\ ~da.fault) => \A k \in DeepKeys : ReturnsNode(da, k)

\* a call with a _resolve that moved the newcomer's parent and returned its new slot
Rebound(lg) ==
  \E i \in DOMAIN lg :
    ResolveAt(lg, i) /\ lg[DoneOf(lg, i)].from_n # lg[i].from_n

UpdateReturnsNodeWitness ==
  /\ Running(da) /\ ~da.fault
  /\ \E k \in DeepKeys : Bind(StepsOfUpdate(da, k), Rebound)

\* the non-empty prefixes of the keys ks: the nodes of their trie, but for the root
PrefixesOf(ks) == UNION {{SubSeq(k, 1, n) : n \in 1 .. Len(k)} : k \in ks}

\* the bytes of x lead from the root to a node
HasPath(d, x) ==
  Bind(_find(d, x, 0, 0, Len(x)), LAMBDA f : ~f.bad /\ f.ret # NO_PATH)

\* the slots of the nodes the prefixes of the keys ks reach and of the values of ks
NodeSlots(d, ks) ==
  {_find(d, x, 0, 0, Len(x)).from : x \in PrefixesOf(ks)}
    \cup {XOR(base_of(d, RdA(d, _find(d, k, 0, 0, Len(k)).from)), 0) : k \in ks}

\* every slot but the root is met on the walk of the empty ring of its block
AllOnRings(d) ==
  \A k \in 0 .. (Shr8(d.size) - 1) :
    ((k * BLOCK) .. (k * BLOCK + BLOCK - 1)) \ {0}
      \subseteq RingWalk(d, RdB(d, k).ehead, BLOCK).seen

\* C29: after any sequence of update and erase calls the occupied slots but the root
\* are exactly the nodes of the trie of the keys stored, one for each non-empty prefix
\* of a key and one value slot of label 0 for each key; when every key is erased,
\* nonzero_size () is 0, begin at the root returns NO_PATH and every slot but the
\* root is on an empty ring
NoLeakedSlots ==
  (Running(da) /\ ~da.fault /\ da.block # <<>>) =>
    /\ \A x \in PrefixesOf(DOMAIN stored) : HasPath(da, x)
    /\ {s \in 1 .. (da.size - 1) : RdA(da, s).check >= 0} = NodeSlots(da, DOMAIN stored)
    /\ nonzero_size(da) =
         Cardinality(PrefixesOf(DOMAIN stored)) + Cardinality(DOMAIN stored)
    /\ DOMAIN stored = {} =>
         /\ nonzero_size(da) = 0
         /\ begin(da, 0, 0).ret = NO_PATH
         /\ AllOnRings(da)

\* no slot _find_place returned is a slot of block 0
PlacesOutside(lg) ==
  \A i \in DOMAIN lg : lg[i].ev = "place" => Shr8(lg[i].e) # 0

\* C30: in every reachable state the root's base is 0, the root's child with the label
\* l is at the slot l, no call of _find_place returns a slot of block 0, and no node
\* but the root and its children occupies a slot of block 0
BlockZeroReserved ==
  (Running(da) /\ ~da.fault /\ da.block # <<>>) =>
    /\ base_of(da, RdA(da, 0)) = 0
    /\ Children(da, 0) \subseteq 1 .. (BLOCK - 1)
    /\ \A s \in 1 .. (BLOCK - 1) : RdA(da, s).check >= 0 => RdA(da, s).check = 0
    /\ \A k \in Keys : Bind(StepsOfUpdate(da, k), PlacesOutside)

\* the index of the step in which the _find_place entered at step i returns
PlaceOf(lg, i) ==
  CHOOSE j \in DOMAIN lg :
    /\ j > i /\ lg[j].ev = "place"
    /\ \A m \in DOMAIN lg : (m > i /\ lg[m].ev = "place") => j <= m

\* the turns of the loop over the Open ring of the _find_place entered at step i
ScansOf(lg, i) == {m \in (i + 1) .. (PlaceOf(lg, i) - 1) : lg[m].ev = "scan"}

\* the _find_place (first, last) entered at step i returns; no block is its
\* candidate twice and each was on the Open ring at the entry; every walk of an empty
\* ring came back to ehead; the slot returned was found by a walk and the group fits
\* there, or no walk found one and it is the first slot of a block added by the call
ScanEnds(lg, i) ==
  /\ \E j \in DOMAIN lg : j > i /\ lg[j].ev = "place"
  /\ ~lg[PlaceOf(lg, i)].fault
  /\ \A m \in ScansOf(lg, i) : lg[m].walked /\ lg[m].bi \in lg[i].open
  /\ \A m \in ScansOf(lg, i) : \A n \in ScansOf(lg, i) : lg[m].bi = lg[n].bi => m = n
  /\ IF \E m \in ScansOf(lg, i) : lg[m].found
     THEN /\ lg[PlaceOf(lg, i)].fits
          /\ lg[PlaceOf(lg, i) - 1].found
          /\ Shr8(lg[PlaceOf(lg, i)].e) = lg[PlaceOf(lg, i) - 1].bi
     ELSE lg[PlaceOf(lg, i)].e = lg[i].size /\ lg[PlaceOf(lg, i)].fits

EveryScanEnds(lg) ==
  \A i \in DOMAIN lg : (lg[i].ev = "enter" /\ ~lg[i].fault) => ScanEnds(lg, i)

\* groups of children in label order: pairs, a group of four and the group of all
\* 256 labels, which no block in use has room for
ScanGroups == {<<0, 1>>, <<1, 3>>, <<0, 1, 2, 3>>, [i \in 1 .. BLOCK |-> i - 1]}

\* the steps of _find_place (first, last) called in the state d for the group g
StepsOfPlace(d, g) == _find_place(Traced(d), g).d.log

\* C31: _find_place (first, last) terminates: it examines each block that was on the
\* Open ring at its entry at most once, though the blocks examined are transferred to
\* the Closed ring during the walk, each walk of a block's empty ring ends when it is
\* back at ehead, and it returns a slot e for which every slot (e ^ first) ^ l, l a
\* label of the group, is empty, or the first slot of a block it added
FindPlaceTerminates ==
  (Running(da) /\ ~da.fault) =>
    /\ \A k \in RingKeys : Bind(StepsOfUpdate(da, k), EveryScanEnds)
    /\ \A g \in ScanGroups : Bind(StepsOfPlace(da, g), EveryScanEnds)

\* a call in which two blocks of the Open ring were examined, of which one had no
\* place for the group
ScanFailed(lg) ==
  \E i \in DOMAIN lg : \E m \in DOMAIN lg :
    /\ lg[i].ev = "enter" /\ ~lg[i].fault /\ ScanEnds(lg, i)
    /\ m \in ScansOf(lg, i) /\ ~lg[m].found
    /\ Cardinality(ScansOf(lg, i)) >= 2

FindPlaceTerminatesWitness ==
  /\ Running(da) /\ ~da.fault
  /\ \E k \in RingKeys : Bind(StepsOfUpdate(da, k), ScanFailed)

\* the arrays are within the limit: _size slots are in use of the _capacity allocated,
\* and a capacity _add_block has allocated needs no more bytes than max_alloc
WithinLimit(d) ==
  /\ d.size <= d.capacity /\ Len(d.array) = d.size
  /\ d.capacity > BLOCK => DesiredAlloc(d.capacity) <= d.max_alloc

\* C32: with a memory limit M > 0 set, inserting new keys ends the program, and until
\* then nothing is corrupted: whenever _add_block returns, the bytes the three arrays
\* need at the new capacity are at most M, no slot at or above the capacity is written,
\* and the invariants on addressing, sibling lists, empty rings, block rings and
\* num_keys hold in every state before the program ends
LimitKeepsInvariants ==
  (da.max_alloc > 0 /\ Running(da) /\ ~da.fault /\ da.block # <<>>) =>
    /\ WithinLimit(da)
    /\ Bind(_add_block(da).d, LAMBDA r : Running(r) => ~r.fault /\ WithinLimit(r))
    /\ XorAddressing
    /\ SiblingRingComplete
    /\ EmptyRingClosure
    /\ BlockState
    /\ NumKeysIsStored

====
